---- MODULE Spec2Model ----
(***************************************************************************)
(* Swiftly AI backend (src/python_scripts/app):                            *)
(*   - the in-memory Session Store (services/conversation_service.py);     *)
(*   - the conversational routes that drive it, the intent route, the      *)
(*     health route and the startup of the server (api/gemini_routes.py,   *)
(*     main.py);                                                           *)
(*   - the Intent Extractor (GeminiService.analyze_task_intent);           *)
(*   - the Knowledge Store and the Retrieval Engine                        *)
(*     (services/rag_service.py).                                          *)
(*                                                                         *)
(* Time is an integer count of clock ticks, TicksPerHour ticks to the      *)
(* hour.  Every datetime.now() of the code is one reading of the clock;    *)
(* the clock never runs backwards, and it may or may not advance between   *)
(* two readings.  Where the Knowledge Store is built and grown (SpecStore) *)
(* the ticks are parts of a second, TicksPerSecond to the second.          *)
(*                                                                         *)
(* Specifications: Spec and SpecCalls drive the Session Store, SpecApi     *)
(* the conversational routes, SpecTurns the turns of one session in flight *)
(* together, SpecServer the process from its start, SpecIntent the Intent  *)
(* Extractor, SpecRag the Retrieval Engine, SpecStore the Knowledge Store. *)
(***************************************************************************)
EXTENDS Integers, Sequences, FiniteSets, TLC

-----------------------------------------------------------------------------
(* Bounds of the model *)

MaxClock == 2
MaxDrift == 1
MaxMsgs == 2
MaxLimit == 3
MaxAgeHours == 1
MaxRequests == 2
MaxTurns == 2
TicksPerHour == 1

SessionIds == {"s1", "s2"}
\* A text is the sequence of its characters
Contents == {<<"a">>, <<"b">>}
ValidRoles == {"user", "assistant"}
Roles == ValidRoles \cup {"system"}

\* An Optional[...] argument or result: None is the empty tuple and a
\* value v is the one-element tuple <<v>>
None == <<>>
Some(v) == <<v>>
Val(opt) == opt[1]

Requests == 1..MaxRequests

Timestamps == {None} \cup {Some(t) : t \in {0, MaxClock}}
Limits == {None} \cup {Some(n) : n \in 0..MaxLimit}

VARIABLES
    conversations,      \* ConversationService.conversations
    session_metadata,   \* ConversationService.session_metadata
    clock,              \* the host clock, last value read or passed
    last,               \* the call that was just made and what it returned
    appended,           \* per session: the messages of the successful
                        \* add_message calls since the session was created
    model,              \* GeminiService.model is set: the services are
                        \* built at startup, and the server starts only
                        \* when the model handle could be made
    reqs,               \* the HTTP requests in flight: where each stands
    turns,              \* per session id: the /ask turns answered with it
    mixed,              \* the session ids that something else than one
                        \* /ask turn at a time has touched
    begun,              \* how many times a route called generate_response
                        \* or generate_rag_enhanced_response: the turns begun
    process,            \* the server process: "starting" while the lifespan
                        \* runs initialize_services, then "serving", or
                        \* "exited" when the startup failed
    services,           \* which of the globals rag_service, gemini_service
                        \* and conversation_service of the routes are set
    documents           \* SimpleRAGService.documents

vars == <<conversations, session_metadata, clock, last, appended,
          model, reqs, turns, mixed, begun, process, services, documents>>

\* the service objects the server holds besides the Session Store
serverVars == <<model, process, services, documents>>

apiVars == <<serverVars, reqs, turns, mixed, begun>>

-----------------------------------------------------------------------------
(* Python helpers *)

Min(a, b) == IF a < b THEN a ELSE b
Max(a, b) == IF a > b THEN a ELSE b

\* seq[start:] of Python, for any integer start
PySliceFrom(seq, start) ==
    LET n == Len(seq)
        lo == IF start < 0 THEN Max(n + start, 0) ELSE Min(start, n)
    IN  SubSeq(seq, lo + 1, n)

\* d[k] = v of a Python dict
DictSet(d, k, v) == [x \in DOMAIN d \cup {k} |-> IF x = k THEN v ELSE d[x]]

\* del d[k] of a Python dict
DictDel(d, k) == [x \in DOMAIN d \ {k} |-> d[x]]

EmptyDict == [x \in {} |-> x]

RECURSIVE Pow2(_)
Pow2(n) == IF n = 0 THEN 1 ELSE 2 * Pow2(n - 1)

\* the digits in which the numbers that do not fit an integer of this
\* module are written: of base 2^15
BitsPerDigit == 15
Base == Pow2(BitsPerDigit)

-----------------------------------------------------------------------------
(* ConversationService *)

\* ConversationMessage(role=..., content=..., timestamp=...) validates
\* role against ^(user|assistant)$
ConversationMessageValid(role) == role \in ValidRoles

\* add_message that counts the message before it builds it
add_message_count_first(conv, meta, session_id, role, content, timestamp, t1, t2, t3, t4) ==
    LET unseen == session_id \notin DOMAIN conv
        conv1 == IF unseen THEN DictSet(conv, session_id, <<>>) ELSE conv
        meta1 == IF unseen
                 THEN DictSet(meta, session_id,
                              [created_at |-> t1, last_activity |-> t2,
                               message_count |-> 0])
                 ELSE meta
        meta2 == [meta1 EXCEPT ![session_id].message_count = @ + 1]
        message == [role |-> role, content |-> content,
                    timestamp |-> IF timestamp # None
                                  THEN Val(timestamp) ELSE t3]
    IN  IF ~ConversationMessageValid(role)
        THEN [conversations |-> conv1, session_metadata |-> meta2,
              raised |-> TRUE]
        ELSE [conversations |->
                  [conv1 EXCEPT ![session_id] = Append(@, message)],
              session_metadata |->
                  [meta2 EXCEPT ![session_id].last_activity = t4],
              raised |-> FALSE]

\* add_message that starts the session anew on every call
add_message_reset(conv, meta, session_id, role, content, timestamp, t1, t2, t3, t4) ==
    LET message == [role |-> role, content |-> content,
                    timestamp |-> IF timestamp # None
                                  THEN Val(timestamp) ELSE t3]
        conv1 == DictSet(conv, session_id, <<>>)
        meta1 == DictSet(meta, session_id,
                         [created_at |-> t1, last_activity |-> t2,
                          message_count |-> 0])
    IN  IF ~ConversationMessageValid(role)
        THEN [conversations |-> conv1, session_metadata |-> meta1,
              raised |-> TRUE]
        ELSE [conversations |-> DictSet(conv, session_id, <<message>>),
              session_metadata |->
                  [meta1 EXCEPT ![session_id].last_activity = t4,
                                ![session_id].message_count = 1],
              raised |-> FALSE]

\* add_message that inserts the message at the head of the list
add_message_prepend(conv, meta, session_id, role, content, timestamp, t1, t2, t3, t4) ==
    LET unseen == session_id \notin DOMAIN conv
        conv1 == IF unseen THEN DictSet(conv, session_id, <<>>) ELSE conv
        meta1 == IF unseen
                 THEN DictSet(meta, session_id,
                              [created_at |-> t1, last_activity |-> t2,
                               message_count |-> 0])
                 ELSE meta
        message == [role |-> role, content |-> content,
                    timestamp |-> IF timestamp # None
                                  THEN Val(timestamp) ELSE t3]
    IN  IF ~ConversationMessageValid(role)
        THEN [conversations |-> conv1, session_metadata |-> meta1,
              raised |-> TRUE]
        ELSE [conversations |->
                  [conv1 EXCEPT ![session_id] = <<message>> \o @],
              session_metadata |->
                  [meta1 EXCEPT ![session_id].last_activity = t4,
                                ![session_id].message_count = @ + 1],
              raised |-> FALSE]

\* add_message that takes last_activity from the message's timestamp
add_message_activity_of_message(conv, meta, session_id, role, content, timestamp, t1, t2, t3, t4) ==
    LET unseen == session_id \notin DOMAIN conv
        conv1 == IF unseen THEN DictSet(conv, session_id, <<>>) ELSE conv
        meta1 == IF unseen
                 THEN DictSet(meta, session_id,
                              [created_at |-> t1, last_activity |-> t2,
                               message_count |-> 0])
                 ELSE meta
        message == [role |-> role, content |-> content,
                    timestamp |-> IF timestamp # None
                                  THEN Val(timestamp) ELSE t3]
    IN  IF ~ConversationMessageValid(role)
        THEN [conversations |-> conv1, session_metadata |-> meta1,
              raised |-> TRUE]
        ELSE [conversations |->
                  [conv1 EXCEPT ![session_id] = Append(@, message)],
              session_metadata |->
                  [meta1 EXCEPT ![session_id].last_activity = message.timestamp,
                                ![session_id].message_count = @ + 1],
              raised |-> FALSE]

\* add_message; t1..t4 are the four readings of datetime.now() in the
\* order the code makes them (created_at, last_activity, timestamp,
\* last_activity)
add_message(conv, meta, session_id, role, content, timestamp, t1, t2, t3, t4) ==
    LET unseen == session_id \notin DOMAIN conv
        conv1 == IF unseen THEN DictSet(conv, session_id, <<>>) ELSE conv
        meta1 == IF unseen
                 THEN DictSet(meta, session_id,
                              [created_at |-> t1, last_activity |-> t2,
                               message_count |-> 0])
                 ELSE meta
        message == [role |-> role, content |-> content,
                    timestamp |-> IF timestamp # None
                                  THEN Val(timestamp) ELSE t3]
        conv2 == [conv1 EXCEPT ![session_id] = Append(@, message)]
    IN  IF ~ConversationMessageValid(role)
        THEN \* ValidationError, after the session was created
             [conversations |-> conv1, session_metadata |-> meta1,
              raised |-> TRUE]
        ELSE IF session_id \notin DOMAIN meta1
        THEN \* KeyError at session_metadata[session_id], after the append
             [conversations |-> conv2, session_metadata |-> meta1,
              raised |-> TRUE]
        ELSE [conversations |-> conv2,
              session_metadata |->
                  [meta1 EXCEPT ![session_id].last_activity = t4,
                                ![session_id].message_count = @ + 1],
              raised |-> FALSE]

get_conversation_history(conv, session_id, limit) ==
    IF session_id \notin DOMAIN conv THEN <<>>
    ELSE LET messages == conv[session_id]
         IN  IF limit # None /\ Val(limit) # 0
             THEN PySliceFrom(messages, 0 - Val(limit))
             ELSE messages

\* get_gemini_history that walks the messages newest first
get_gemini_history_reversed(conv, session_id) ==
    LET messages == get_conversation_history(conv, session_id, None)
        n == Len(messages)
    IN  [i \in 1..n |->
            [role |-> messages[n + 1 - i].role,
             parts |-> <<[text |-> messages[n + 1 - i].content]>>]]

get_gemini_history(conv, session_id) ==
    LET messages == get_conversation_history(conv, session_id, None)
    IN  [i \in 1..Len(messages) |->
            [role |-> messages[i].role,
             parts |-> <<[text |-> messages[i].content]>>]]

\* clear_session that forgets the metadata
clear_session_keep_metadata(conv, meta, session_id) ==
    IF session_id \in DOMAIN conv
    THEN [conversations |-> DictDel(conv, session_id),
          session_metadata |-> meta,
          ret |-> TRUE, raised |-> FALSE]
    ELSE [conversations |-> conv, session_metadata |-> meta,
          ret |-> FALSE, raised |-> FALSE]

clear_session(conv, meta, session_id) ==
    IF session_id \in DOMAIN conv
    THEN IF session_id \in DOMAIN meta
         THEN [conversations |-> DictDel(conv, session_id),
               session_metadata |-> DictDel(meta, session_id),
               ret |-> TRUE, raised |-> FALSE]
         ELSE \* KeyError at del session_metadata[session_id]
              [conversations |-> DictDel(conv, session_id),
               session_metadata |-> meta,
               ret |-> FALSE, raised |-> TRUE]
    ELSE [conversations |-> conv, session_metadata |-> meta,
          ret |-> FALSE, raised |-> FALSE]

get_session_info(meta, session_id) ==
    IF session_id \in DOMAIN meta THEN Some(meta[session_id]) ELSE None

\* age_hours >= max_age_hours
Expired_inclusive(metadata, current_time, max_age_hours) ==
    current_time - metadata.last_activity >= max_age_hours * TicksPerHour

\* age_hours > max_age_hours, with age_hours = ticks / TicksPerHour
Expired(metadata, current_time, max_age_hours) ==
    current_time - metadata.last_activity > max_age_hours * TicksPerHour

sessions_to_remove(meta, current_time, max_age_hours) ==
    {s \in DOMAIN meta : Expired(meta[s], current_time, max_age_hours)}

RECURSIVE ClearAll(_, _, _)
ClearAll(conv, meta, ids) ==
    IF ids = {} THEN [conversations |-> conv, session_metadata |-> meta]
    ELSE LET s == CHOOSE x \in ids : TRUE
             r == clear_session(conv, meta, s)
         IN  ClearAll(r.conversations, r.session_metadata, ids \ {s})

\* cleanup_old_sessions that clears while it scans session_metadata: the
\* scan ends at the first session it removes
cleanup_old_sessions_no_snapshot(conv, meta, max_age_hours, current_time) ==
    LET remove == sessions_to_remove(meta, current_time, max_age_hours)
        first == IF remove = {} THEN {} ELSE {CHOOSE x \in remove : TRUE}
        r == ClearAll(conv, meta, first)
    IN  [conversations |-> r.conversations,
         session_metadata |-> r.session_metadata,
         ret |-> Cardinality(first)]

cleanup_old_sessions(conv, meta, max_age_hours, current_time) ==
    LET remove == sessions_to_remove(meta, current_time, max_age_hours)
        r == ClearAll(conv, meta, remove)
    IN  [conversations |-> r.conversations,
         session_metadata |-> r.session_metadata,
         ret |-> Cardinality(remove)]

-----------------------------------------------------------------------------
(* The Session Store driven call by call *)

\* the clock readings a call can make from reading `from` on, when the call
\* started at `start`: the clock advances by at most MaxDrift during a call
Readings(start, from) == from..Min(start + MaxDrift, MaxClock)

TotalMsgs(conv) ==
    LET RECURSIVE Sum(_)
        Sum(S) == IF S = {} THEN 0
                  ELSE LET s == CHOOSE x \in S : TRUE
                       IN  Len(conv[s]) + Sum(S \ {s})
    IN  Sum(DOMAIN conv)

\* what a stored message is, without the model's note of who stamped it
Stored(m) == [role |-> m.role, content |-> m.content,
              timestamp |-> m.timestamp]

StoredSeq(ms) == [i \in 1..Len(ms) |-> Stored(ms[i])]

\* the successful appends of every session that exists after a call: a
\* session that does not exist has none, and one that was just created
\* starts anew
AppendedAfter(conv2, s, new) ==
    [x \in DOMAIN conv2 |->
        LET old == IF x \in DOMAIN conversations /\ x \in DOMAIN appended
                   THEN appended[x] ELSE <<>>
        IN  IF x = s THEN old \o new ELSE old]

-----------------------------------------------------------------------------
(* Texts and values of the Knowledge Store *)
(*                                                                         *)
(* A text of the Knowledge Store (a content, a query, a word, a context    *)
(* block) is the sequence of its code points, so that every str of Python  *)
(* is a text.  What str.isspace(), str.lower() and str.isprintable() make  *)
(* of a character is tabled from the Unicode data of Python 3.11 (Unicode  *)
(* 14.0).  A value of a metadata dict is a value as json.load makes it:    *)
(* None, a bool, an int, a float, a str, a list or a dict; a float is the  *)
(* sign, the exponent field and the 52 fraction bits of its double (the    *)
(* bits in digits of base 2^15, the highest first), a str is its text, and *)
(* a dict among the values (JPairs) is the sequence of its (key, value)    *)
(* pairs in the order the dict keeps them, which is the order str() shows  *)
(* them in.  An int is an integer of this module.                          *)

\* The characters a string of this module can spell: those of ASCII from
\* the space to the tilde, but the backtick
AsciiChars ==
    " !\"#$%&'()*+,-./0123456789:;<=>?@ABCDEFGHIJKLMNOPQRSTUVWXYZ[\\]^_"
    \o "abcdefghijklmnopqrstuvwxyz{|}~"

\* ord(c), for a character of AsciiChars
ord(c) ==
    LET k == CHOOSE n \in 1..Len(AsciiChars) : SubSeq(AsciiChars, n, n) = c
    IN  IF k <= 64 THEN 31 + k ELSE 32 + k

\* the text a string of this module spells
RECURSIVE Text(_)
Text(s) ==
    IF s = "" THEN <<>>
    ELSE IF Len(s) = 1 THEN <<ord(s)>>
    ELSE LET half == Len(s) \div 2
         IN  Text(SubSeq(s, 1, half)) \o Text(SubSeq(s, half + 1, Len(s)))

\* the values json.load makes and a metadata dict can hold
JNull == [t |-> "null"]
JBool(b) == [t |-> "bool", b |-> b]
JNum(n) == [t |-> "num", n |-> n]
JStr(s) == [t |-> "str", s |-> s]
JList(items) == [t |-> "list", items |-> items]
JDict(members) == [t |-> "dict", members |-> members]
JPairs(pairs) == [t |-> "pairs", pairs |-> pairs]
JFloat(sign, exponent, fraction) ==
    [t |-> "float", sign |-> sign, exponent |-> exponent,
     fraction |-> fraction]

\* str.isspace() of one character: what str.strip() and str.split() take
\* for whitespace
WhitespaceCodes ==
    {9, 10, 11, 12, 13, 28, 29, 30, 31, 32, 133, 160, 5760, 8192, 8193, 8194,
     8195, 8196, 8197, 8198, 8199, 8200, 8201, 8202, 8232, 8233, 8239, 8287,
     12288}

\* str.split(): the words between runs of whitespace
RECURSIVE split(_)
split(text) ==
    IF text = <<>> THEN <<>>
    ELSE IF text[1] \in WhitespaceCodes THEN split(Tail(text))
    ELSE LET ends == {i \in 1..Len(text) : text[i] \in WhitespaceCodes}
             n == IF ends = {} THEN Len(text)
                  ELSE (CHOOSE i \in ends : \A j \in ends : i <= j) - 1
         IN  <<SubSeq(text, 1, n)>> \o split(SubSeq(text, n + 1, Len(text)))

\* set(text.split())
Words(text) == {split(text)[i] : i \in 1..Len(split(text))}

\* needle in hay
Contains(hay, needle) ==
    \E i \in 0..(Len(hay) - Len(needle)) :
        SubSeq(hay, i + 1, i + Len(needle)) = needle

\* The letters above U+007F that str.lower() changes into one other
\* letter: from the first to the last of a run, every step-th of them, is
\* moved by delta.
LowerRules ==
    {<<192, 214, 1, 32>>, <<216, 222, 1, 32>>, <<256, 302, 2, 1>>,
     <<306, 310, 2, 1>>, <<313, 327, 2, 1>>, <<330, 374, 2, 1>>,
     <<376, 376, 1, -121>>, <<377, 381, 2, 1>>, <<385, 385, 1, 210>>,
     <<386, 388, 2, 1>>, <<390, 390, 1, 206>>, <<391, 391, 1, 1>>,
     <<393, 394, 1, 205>>, <<395, 395, 1, 1>>, <<398, 398, 1, 79>>,
     <<399, 399, 1, 202>>, <<400, 400, 1, 203>>, <<401, 401, 1, 1>>,
     <<403, 403, 1, 205>>, <<404, 404, 1, 207>>, <<406, 406, 1, 211>>,
     <<407, 407, 1, 209>>, <<408, 408, 1, 1>>, <<412, 412, 1, 211>>,
     <<413, 413, 1, 213>>, <<415, 415, 1, 214>>, <<416, 420, 2, 1>>,
     <<422, 422, 1, 218>>, <<423, 423, 1, 1>>, <<425, 425, 1, 218>>,
     <<428, 428, 1, 1>>, <<430, 430, 1, 218>>, <<431, 431, 1, 1>>,
     <<433, 434, 1, 217>>, <<435, 437, 2, 1>>, <<439, 439, 1, 219>>,
     <<440, 440, 1, 1>>, <<444, 444, 1, 1>>, <<452, 452, 1, 2>>,
     <<453, 453, 1, 1>>, <<455, 455, 1, 2>>, <<456, 456, 1, 1>>,
     <<458, 458, 1, 2>>, <<459, 475, 2, 1>>, <<478, 494, 2, 1>>,
     <<497, 497, 1, 2>>, <<498, 500, 2, 1>>, <<502, 502, 1, -97>>,
     <<503, 503, 1, -56>>, <<504, 542, 2, 1>>, <<544, 544, 1, -130>>,
     <<546, 562, 2, 1>>, <<570, 570, 1, 10795>>, <<571, 571, 1, 1>>,
     <<573, 573, 1, -163>>, <<574, 574, 1, 10792>>, <<577, 577, 1, 1>>,
     <<579, 579, 1, -195>>, <<580, 580, 1, 69>>, <<581, 581, 1, 71>>,
     <<582, 590, 2, 1>>, <<880, 882, 2, 1>>, <<886, 886, 1, 1>>,
     <<895, 895, 1, 116>>, <<902, 902, 1, 38>>, <<904, 906, 1, 37>>,
     <<908, 908, 1, 64>>, <<910, 911, 1, 63>>, <<913, 929, 1, 32>>,
     <<932, 939, 1, 32>>, <<975, 975, 1, 8>>, <<984, 1006, 2, 1>>,
     <<1012, 1012, 1, -60>>, <<1015, 1015, 1, 1>>, <<1017, 1017, 1, -7>>,
     <<1018, 1018, 1, 1>>, <<1021, 1023, 1, -130>>, <<1024, 1039, 1, 80>>,
     <<1040, 1071, 1, 32>>, <<1120, 1152, 2, 1>>, <<1162, 1214, 2, 1>>,
     <<1216, 1216, 1, 15>>, <<1217, 1229, 2, 1>>, <<1232, 1326, 2, 1>>,
     <<1329, 1366, 1, 48>>, <<4256, 4293, 1, 7264>>, <<4295, 4295, 1, 7264>>,
     <<4301, 4301, 1, 7264>>, <<5024, 5103, 1, 38864>>, <<5104, 5109, 1, 8>>,
     <<7312, 7354, 1, -3008>>, <<7357, 7359, 1, -3008>>,
     <<7680, 7828, 2, 1>>, <<7838, 7838, 1, -7615>>, <<7840, 7934, 2, 1>>,
     <<7944, 7951, 1, -8>>, <<7960, 7965, 1, -8>>, <<7976, 7983, 1, -8>>,
     <<7992, 7999, 1, -8>>, <<8008, 8013, 1, -8>>, <<8025, 8031, 2, -8>>,
     <<8040, 8047, 1, -8>>, <<8072, 8079, 1, -8>>, <<8088, 8095, 1, -8>>,
     <<8104, 8111, 1, -8>>, <<8120, 8121, 1, -8>>, <<8122, 8123, 1, -74>>,
     <<8124, 8124, 1, -9>>, <<8136, 8139, 1, -86>>, <<8140, 8140, 1, -9>>,
     <<8152, 8153, 1, -8>>, <<8154, 8155, 1, -100>>, <<8168, 8169, 1, -8>>,
     <<8170, 8171, 1, -112>>, <<8172, 8172, 1, -7>>, <<8184, 8185, 1, -128>>,
     <<8186, 8187, 1, -126>>, <<8188, 8188, 1, -9>>,
     <<8486, 8486, 1, -7517>>, <<8490, 8490, 1, -8383>>,
     <<8491, 8491, 1, -8262>>, <<8498, 8498, 1, 28>>, <<8544, 8559, 1, 16>>,
     <<8579, 8579, 1, 1>>, <<9398, 9423, 1, 26>>, <<11264, 11311, 1, 48>>,
     <<11360, 11360, 1, 1>>, <<11362, 11362, 1, -10743>>,
     <<11363, 11363, 1, -3814>>, <<11364, 11364, 1, -10727>>,
     <<11367, 11371, 2, 1>>, <<11373, 11373, 1, -10780>>,
     <<11374, 11374, 1, -10749>>, <<11375, 11375, 1, -10783>>,
     <<11376, 11376, 1, -10782>>, <<11378, 11378, 1, 1>>,
     <<11381, 11381, 1, 1>>, <<11390, 11391, 1, -10815>>,
     <<11392, 11490, 2, 1>>, <<11499, 11501, 2, 1>>, <<11506, 11506, 1, 1>>,
     <<42560, 42604, 2, 1>>, <<42624, 42650, 2, 1>>, <<42786, 42798, 2, 1>>,
     <<42802, 42862, 2, 1>>, <<42873, 42875, 2, 1>>,
     <<42877, 42877, 1, -35332>>, <<42878, 42886, 2, 1>>,
     <<42891, 42891, 1, 1>>, <<42893, 42893, 1, -42280>>,
     <<42896, 42898, 2, 1>>, <<42902, 42920, 2, 1>>,
     <<42922, 42922, 1, -42308>>, <<42923, 42923, 1, -42319>>,
     <<42924, 42924, 1, -42315>>, <<42925, 42925, 1, -42305>>,
     <<42926, 42926, 1, -42308>>, <<42928, 42928, 1, -42258>>,
     <<42929, 42929, 1, -42282>>, <<42930, 42930, 1, -42261>>,
     <<42931, 42931, 1, 928>>, <<42932, 42946, 2, 1>>,
     <<42948, 42948, 1, -48>>, <<42949, 42949, 1, -42307>>,
     <<42950, 42950, 1, -35384>>, <<42951, 42953, 2, 1>>,
     <<42960, 42960, 1, 1>>, <<42966, 42968, 2, 1>>, <<42997, 42997, 1, 1>>,
     <<65313, 65338, 1, 32>>, <<66560, 66599, 1, 40>>,
     <<66736, 66771, 1, 40>>, <<66928, 66938, 1, 39>>,
     <<66940, 66954, 1, 39>>, <<66956, 66962, 1, 39>>,
     <<66964, 66965, 1, 39>>, <<68736, 68786, 1, 64>>,
     <<71840, 71871, 1, 32>>, <<93760, 93791, 1, 32>>,
     <<125184, 125217, 1, 34>>}

\* the characters that are cased
Cased ==
    {<<65, 90>>, <<97, 122>>, <<170, 170>>, <<181, 181>>, <<186, 186>>,
     <<192, 214>>, <<216, 246>>, <<248, 442>>, <<444, 447>>, <<452, 659>>,
     <<661, 696>>, <<704, 705>>, <<736, 740>>, <<837, 837>>, <<880, 883>>,
     <<886, 887>>, <<890, 893>>, <<895, 895>>, <<902, 902>>, <<904, 906>>,
     <<908, 908>>, <<910, 929>>, <<931, 1013>>, <<1015, 1153>>,
     <<1162, 1327>>, <<1329, 1366>>, <<1376, 1416>>, <<4256, 4293>>,
     <<4295, 4295>>, <<4301, 4301>>, <<4304, 4346>>, <<4349, 4351>>,
     <<5024, 5109>>, <<5112, 5117>>, <<7296, 7304>>, <<7312, 7354>>,
     <<7357, 7359>>, <<7424, 7615>>, <<7680, 7957>>, <<7960, 7965>>,
     <<7968, 8005>>, <<8008, 8013>>, <<8016, 8023>>, <<8025, 8025>>,
     <<8027, 8027>>, <<8029, 8029>>, <<8031, 8061>>, <<8064, 8116>>,
     <<8118, 8124>>, <<8126, 8126>>, <<8130, 8132>>, <<8134, 8140>>,
     <<8144, 8147>>, <<8150, 8155>>, <<8160, 8172>>, <<8178, 8180>>,
     <<8182, 8188>>, <<8305, 8305>>, <<8319, 8319>>, <<8336, 8348>>,
     <<8450, 8450>>, <<8455, 8455>>, <<8458, 8467>>, <<8469, 8469>>,
     <<8473, 8477>>, <<8484, 8484>>, <<8486, 8486>>, <<8488, 8488>>,
     <<8490, 8493>>, <<8495, 8500>>, <<8505, 8505>>, <<8508, 8511>>,
     <<8517, 8521>>, <<8526, 8526>>, <<8544, 8575>>, <<8579, 8580>>,
     <<9398, 9449>>, <<11264, 11492>>, <<11499, 11502>>, <<11506, 11507>>,
     <<11520, 11557>>, <<11559, 11559>>, <<11565, 11565>>, <<42560, 42605>>,
     <<42624, 42653>>, <<42786, 42887>>, <<42891, 42894>>, <<42896, 42954>>,
     <<42960, 42961>>, <<42963, 42963>>, <<42965, 42969>>, <<42997, 42998>>,
     <<43000, 43002>>, <<43824, 43866>>, <<43868, 43880>>, <<43888, 43967>>,
     <<64256, 64262>>, <<64275, 64279>>, <<65313, 65338>>, <<65345, 65370>>,
     <<66560, 66639>>, <<66736, 66771>>, <<66776, 66811>>, <<66928, 66938>>,
     <<66940, 66954>>, <<66956, 66962>>, <<66964, 66965>>, <<66967, 66977>>,
     <<66979, 66993>>, <<66995, 67001>>, <<67003, 67004>>, <<67456, 67456>>,
     <<67459, 67461>>, <<67463, 67504>>, <<67506, 67514>>, <<68736, 68786>>,
     <<68800, 68850>>, <<71840, 71903>>, <<93760, 93823>>,
     <<119808, 119892>>, <<119894, 119964>>, <<119966, 119967>>,
     <<119970, 119970>>, <<119973, 119974>>, <<119977, 119980>>,
     <<119982, 119993>>, <<119995, 119995>>, <<119997, 120003>>,
     <<120005, 120069>>, <<120071, 120074>>, <<120077, 120084>>,
     <<120086, 120092>>, <<120094, 120121>>, <<120123, 120126>>,
     <<120128, 120132>>, <<120134, 120134>>, <<120138, 120144>>,
     <<120146, 120485>>, <<120488, 120512>>, <<120514, 120538>>,
     <<120540, 120570>>, <<120572, 120596>>, <<120598, 120628>>,
     <<120630, 120654>>, <<120656, 120686>>, <<120688, 120712>>,
     <<120714, 120744>>, <<120746, 120770>>, <<120772, 120779>>,
     <<122624, 122633>>, <<122635, 122654>>, <<125184, 125251>>,
     <<127280, 127305>>, <<127312, 127337>>, <<127344, 127369>>}

\* the characters that are case-ignorable
CaseIgnorable ==
    {<<39, 39>>, <<46, 46>>, <<58, 58>>, <<94, 94>>, <<96, 96>>,
     <<168, 168>>, <<173, 173>>, <<175, 175>>, <<180, 180>>, <<183, 184>>,
     <<688, 879>>, <<884, 885>>, <<890, 890>>, <<900, 901>>, <<903, 903>>,
     <<1155, 1161>>, <<1369, 1369>>, <<1375, 1375>>, <<1425, 1469>>,
     <<1471, 1471>>, <<1473, 1474>>, <<1476, 1477>>, <<1479, 1479>>,
     <<1524, 1524>>, <<1536, 1541>>, <<1552, 1562>>, <<1564, 1564>>,
     <<1600, 1600>>, <<1611, 1631>>, <<1648, 1648>>, <<1750, 1757>>,
     <<1759, 1768>>, <<1770, 1773>>, <<1807, 1807>>, <<1809, 1809>>,
     <<1840, 1866>>, <<1958, 1968>>, <<2027, 2037>>, <<2042, 2042>>,
     <<2045, 2045>>, <<2070, 2093>>, <<2137, 2139>>, <<2184, 2184>>,
     <<2192, 2193>>, <<2200, 2207>>, <<2249, 2306>>, <<2362, 2362>>,
     <<2364, 2364>>, <<2369, 2376>>, <<2381, 2381>>, <<2385, 2391>>,
     <<2402, 2403>>, <<2417, 2417>>, <<2433, 2433>>, <<2492, 2492>>,
     <<2497, 2500>>, <<2509, 2509>>, <<2530, 2531>>, <<2558, 2558>>,
     <<2561, 2562>>, <<2620, 2620>>, <<2625, 2626>>, <<2631, 2632>>,
     <<2635, 2637>>, <<2641, 2641>>, <<2672, 2673>>, <<2677, 2677>>,
     <<2689, 2690>>, <<2748, 2748>>, <<2753, 2757>>, <<2759, 2760>>,
     <<2765, 2765>>, <<2786, 2787>>, <<2810, 2815>>, <<2817, 2817>>,
     <<2876, 2876>>, <<2879, 2879>>, <<2881, 2884>>, <<2893, 2893>>,
     <<2901, 2902>>, <<2914, 2915>>, <<2946, 2946>>, <<3008, 3008>>,
     <<3021, 3021>>, <<3072, 3072>>, <<3076, 3076>>, <<3132, 3132>>,
     <<3134, 3136>>, <<3142, 3144>>, <<3146, 3149>>, <<3157, 3158>>,
     <<3170, 3171>>, <<3201, 3201>>, <<3260, 3260>>, <<3263, 3263>>,
     <<3270, 3270>>, <<3276, 3277>>, <<3298, 3299>>, <<3328, 3329>>,
     <<3387, 3388>>, <<3393, 3396>>, <<3405, 3405>>, <<3426, 3427>>,
     <<3457, 3457>>, <<3530, 3530>>, <<3538, 3540>>, <<3542, 3542>>,
     <<3633, 3633>>, <<3636, 3642>>, <<3654, 3662>>, <<3761, 3761>>,
     <<3764, 3772>>, <<3782, 3782>>, <<3784, 3789>>, <<3864, 3865>>,
     <<3893, 3893>>, <<3895, 3895>>, <<3897, 3897>>, <<3953, 3966>>,
     <<3968, 3972>>, <<3974, 3975>>, <<3981, 3991>>, <<3993, 4028>>,
     <<4038, 4038>>, <<4141, 4144>>, <<4146, 4151>>, <<4153, 4154>>,
     <<4157, 4158>>, <<4184, 4185>>, <<4190, 4192>>, <<4209, 4212>>,
     <<4226, 4226>>, <<4229, 4230>>, <<4237, 4237>>, <<4253, 4253>>,
     <<4348, 4348>>, <<4957, 4959>>, <<5906, 5908>>, <<5938, 5939>>,
     <<5970, 5971>>, <<6002, 6003>>, <<6068, 6069>>, <<6071, 6077>>,
     <<6086, 6086>>, <<6089, 6099>>, <<6103, 6103>>, <<6109, 6109>>,
     <<6155, 6159>>, <<6211, 6211>>, <<6277, 6278>>, <<6313, 6313>>,
     <<6432, 6434>>, <<6439, 6440>>, <<6450, 6450>>, <<6457, 6459>>,
     <<6679, 6680>>, <<6683, 6683>>, <<6742, 6742>>, <<6744, 6750>>,
     <<6752, 6752>>, <<6754, 6754>>, <<6757, 6764>>, <<6771, 6780>>,
     <<6783, 6783>>, <<6823, 6823>>, <<6832, 6862>>, <<6912, 6915>>,
     <<6964, 6964>>, <<6966, 6970>>, <<6972, 6972>>, <<6978, 6978>>,
     <<7019, 7027>>, <<7040, 7041>>, <<7074, 7077>>, <<7080, 7081>>,
     <<7083, 7085>>, <<7142, 7142>>, <<7144, 7145>>, <<7149, 7149>>,
     <<7151, 7153>>, <<7212, 7219>>, <<7222, 7223>>, <<7288, 7293>>,
     <<7376, 7378>>, <<7380, 7392>>, <<7394, 7400>>, <<7405, 7405>>,
     <<7412, 7412>>, <<7416, 7417>>, <<7468, 7530>>, <<7544, 7544>>,
     <<7579, 7679>>, <<8125, 8125>>, <<8127, 8129>>, <<8141, 8143>>,
     <<8157, 8159>>, <<8173, 8175>>, <<8189, 8190>>, <<8203, 8207>>,
     <<8216, 8217>>, <<8228, 8228>>, <<8231, 8231>>, <<8234, 8238>>,
     <<8288, 8292>>, <<8294, 8303>>, <<8305, 8305>>, <<8319, 8319>>,
     <<8336, 8348>>, <<8400, 8432>>, <<11388, 11389>>, <<11503, 11505>>,
     <<11631, 11631>>, <<11647, 11647>>, <<11744, 11775>>, <<11823, 11823>>,
     <<12293, 12293>>, <<12330, 12333>>, <<12337, 12341>>, <<12347, 12347>>,
     <<12441, 12446>>, <<12540, 12542>>, <<40981, 40981>>, <<42232, 42237>>,
     <<42508, 42508>>, <<42607, 42610>>, <<42612, 42621>>, <<42623, 42623>>,
     <<42652, 42655>>, <<42736, 42737>>, <<42752, 42785>>, <<42864, 42864>>,
     <<42888, 42890>>, <<42994, 42996>>, <<43000, 43001>>, <<43010, 43010>>,
     <<43014, 43014>>, <<43019, 43019>>, <<43045, 43046>>, <<43052, 43052>>,
     <<43204, 43205>>, <<43232, 43249>>, <<43263, 43263>>, <<43302, 43309>>,
     <<43335, 43345>>, <<43392, 43394>>, <<43443, 43443>>, <<43446, 43449>>,
     <<43452, 43453>>, <<43471, 43471>>, <<43493, 43494>>, <<43561, 43566>>,
     <<43569, 43570>>, <<43573, 43574>>, <<43587, 43587>>, <<43596, 43596>>,
     <<43632, 43632>>, <<43644, 43644>>, <<43696, 43696>>, <<43698, 43700>>,
     <<43703, 43704>>, <<43710, 43711>>, <<43713, 43713>>, <<43741, 43741>>,
     <<43756, 43757>>, <<43763, 43764>>, <<43766, 43766>>, <<43867, 43871>>,
     <<43881, 43883>>, <<44005, 44005>>, <<44008, 44008>>, <<44013, 44013>>,
     <<64286, 64286>>, <<64434, 64450>>, <<65024, 65039>>, <<65043, 65043>>,
     <<65056, 65071>>, <<65106, 65106>>, <<65109, 65109>>, <<65279, 65279>>,
     <<65287, 65287>>, <<65294, 65294>>, <<65306, 65306>>, <<65342, 65342>>,
     <<65344, 65344>>, <<65392, 65392>>, <<65438, 65439>>, <<65507, 65507>>,
     <<65529, 65531>>, <<66045, 66045>>, <<66272, 66272>>, <<66422, 66426>>,
     <<67456, 67461>>, <<67463, 67504>>, <<67506, 67514>>, <<68097, 68099>>,
     <<68101, 68102>>, <<68108, 68111>>, <<68152, 68154>>, <<68159, 68159>>,
     <<68325, 68326>>, <<68900, 68903>>, <<69291, 69292>>, <<69446, 69456>>,
     <<69506, 69509>>, <<69633, 69633>>, <<69688, 69702>>, <<69744, 69744>>,
     <<69747, 69748>>, <<69759, 69761>>, <<69811, 69814>>, <<69817, 69818>>,
     <<69821, 69821>>, <<69826, 69826>>, <<69837, 69837>>, <<69888, 69890>>,
     <<69927, 69931>>, <<69933, 69940>>, <<70003, 70003>>, <<70016, 70017>>,
     <<70070, 70078>>, <<70089, 70092>>, <<70095, 70095>>, <<70191, 70193>>,
     <<70196, 70196>>, <<70198, 70199>>, <<70206, 70206>>, <<70367, 70367>>,
     <<70371, 70378>>, <<70400, 70401>>, <<70459, 70460>>, <<70464, 70464>>,
     <<70502, 70508>>, <<70512, 70516>>, <<70712, 70719>>, <<70722, 70724>>,
     <<70726, 70726>>, <<70750, 70750>>, <<70835, 70840>>, <<70842, 70842>>,
     <<70847, 70848>>, <<70850, 70851>>, <<71090, 71093>>, <<71100, 71101>>,
     <<71103, 71104>>, <<71132, 71133>>, <<71219, 71226>>, <<71229, 71229>>,
     <<71231, 71232>>, <<71339, 71339>>, <<71341, 71341>>, <<71344, 71349>>,
     <<71351, 71351>>, <<71453, 71455>>, <<71458, 71461>>, <<71463, 71467>>,
     <<71727, 71735>>, <<71737, 71738>>, <<71995, 71996>>, <<71998, 71998>>,
     <<72003, 72003>>, <<72148, 72151>>, <<72154, 72155>>, <<72160, 72160>>,
     <<72193, 72202>>, <<72243, 72248>>, <<72251, 72254>>, <<72263, 72263>>,
     <<72273, 72278>>, <<72281, 72283>>, <<72330, 72342>>, <<72344, 72345>>,
     <<72752, 72758>>, <<72760, 72765>>, <<72767, 72767>>, <<72850, 72871>>,
     <<72874, 72880>>, <<72882, 72883>>, <<72885, 72886>>, <<73009, 73014>>,
     <<73018, 73018>>, <<73020, 73021>>, <<73023, 73029>>, <<73031, 73031>>,
     <<73104, 73105>>, <<73109, 73109>>, <<73111, 73111>>, <<73459, 73460>>,
     <<78896, 78904>>, <<92912, 92916>>, <<92976, 92982>>, <<92992, 92995>>,
     <<94031, 94031>>, <<94095, 94111>>, <<94176, 94177>>, <<94179, 94180>>,
     <<110576, 110579>>, <<110581, 110587>>, <<110589, 110590>>,
     <<113821, 113822>>, <<113824, 113827>>, <<118528, 118573>>,
     <<118576, 118598>>, <<119143, 119145>>, <<119155, 119170>>,
     <<119173, 119179>>, <<119210, 119213>>, <<119362, 119364>>,
     <<121344, 121398>>, <<121403, 121452>>, <<121461, 121461>>,
     <<121476, 121476>>, <<121499, 121503>>, <<121505, 121519>>,
     <<122880, 122886>>, <<122888, 122904>>, <<122907, 122913>>,
     <<122915, 122916>>, <<122918, 122922>>, <<123184, 123197>>,
     <<123566, 123566>>, <<123628, 123631>>, <<125136, 125142>>,
     <<125252, 125259>>, <<127995, 127999>>, <<917505, 917505>>,
     <<917536, 917631>>, <<917760, 917999>>}

InRanges(c, ranges) == \E r \in ranges : r[1] <= c /\ c <= r[2]

\* the lower case of one character that is not the capital sigma
ToLowerFull(c) ==
    IF c < 128 THEN <<IF 65 <= c /\ c <= 90 THEN c + 32 ELSE c>>
    ELSE IF c = 304 THEN <<105, 775>>
    ELSE LET rules == {r \in LowerRules :
                          /\ r[1] <= c /\ c <= r[2]
                          /\ (c - r[1]) % r[3] = 0}
         IN  IF rules = {} THEN <<c>>
             ELSE <<c + (CHOOSE r \in rules : TRUE)[4]>>

\* Whether the capital sigma at place i of a text of n characters is a
\* final one: a cased letter comes before it and none after it,
\* case-ignorable characters between them not counted.  cased and ignorable
\* are the places of the cased and of the case-ignorable characters.
final_sigma(i, n, cased, ignorable) ==
    LET before == (1..(i - 1)) \ ignorable
        after == ((i + 1)..n) \ ignorable
    IN  /\ before # {}
        /\ (CHOOSE j \in before : \A k \in before : k <= j) \in cased
        /\ \/ after = {}
           \/ (CHOOSE j \in after : \A k \in after : j <= k) \notin cased

\* the lower case of the capital sigma at place i
handle_capital_sigma(text, i) ==
    IF final_sigma(i, Len(text),
                   {j \in 1..Len(text) : InRanges(text[j], Cased)},
                   {j \in 1..Len(text) : InRanges(text[j], CaseIgnorable)})
    THEN 962 ELSE 963

RECURSIVE do_lower(_, _)
do_lower(text, i) ==
    IF i > Len(text) THEN <<>>
    ELSE (IF text[i] = 931 THEN <<handle_capital_sigma(text, i)>>
          ELSE ToLowerFull(text[i]))
         \o do_lower(text, i + 1)

\* str.lower()
lower(text) == do_lower(text, 1)

\* "sep".join(parts)
RECURSIVE join(_, _)
join(sep, parts) ==
    IF parts = <<>> THEN <<>>
    ELSE IF Len(parts) = 1 THEN parts[1]
    ELSE parts[1] \o sep \o join(sep, Tail(parts))

\* the decimal digits of a whole number n >= 0
RECURSIVE Decimal(_)
Decimal(n) ==
    IF n < 10 THEN <<48 + n>> ELSE Append(Decimal(n \div 10), 48 + (n % 10))

\* the last `width` hexadecimal digits of n, in small letters
RECURSIVE Hex(_, _)
Hex(n, width) ==
    IF width = 0 THEN <<>>
    ELSE Append(Hex(n \div 16, width - 1),
                IF n % 16 < 10 THEN 48 + (n % 16) ELSE 87 + (n % 16))

\* the characters that are not printable, above U+007F
NonPrintable ==
    {<<128, 160>>, <<173, 173>>, <<888, 889>>, <<896, 899>>, <<907, 907>>,
     <<909, 909>>, <<930, 930>>, <<1328, 1328>>, <<1367, 1368>>,
     <<1419, 1420>>, <<1424, 1424>>, <<1480, 1487>>, <<1515, 1518>>,
     <<1525, 1541>>, <<1564, 1564>>, <<1757, 1757>>, <<1806, 1807>>,
     <<1867, 1868>>, <<1970, 1983>>, <<2043, 2044>>, <<2094, 2095>>,
     <<2111, 2111>>, <<2140, 2141>>, <<2143, 2143>>, <<2155, 2159>>,
     <<2191, 2199>>, <<2274, 2274>>, <<2436, 2436>>, <<2445, 2446>>,
     <<2449, 2450>>, <<2473, 2473>>, <<2481, 2481>>, <<2483, 2485>>,
     <<2490, 2491>>, <<2501, 2502>>, <<2505, 2506>>, <<2511, 2518>>,
     <<2520, 2523>>, <<2526, 2526>>, <<2532, 2533>>, <<2559, 2560>>,
     <<2564, 2564>>, <<2571, 2574>>, <<2577, 2578>>, <<2601, 2601>>,
     <<2609, 2609>>, <<2612, 2612>>, <<2615, 2615>>, <<2618, 2619>>,
     <<2621, 2621>>, <<2627, 2630>>, <<2633, 2634>>, <<2638, 2640>>,
     <<2642, 2648>>, <<2653, 2653>>, <<2655, 2661>>, <<2679, 2688>>,
     <<2692, 2692>>, <<2702, 2702>>, <<2706, 2706>>, <<2729, 2729>>,
     <<2737, 2737>>, <<2740, 2740>>, <<2746, 2747>>, <<2758, 2758>>,
     <<2762, 2762>>, <<2766, 2767>>, <<2769, 2783>>, <<2788, 2789>>,
     <<2802, 2808>>, <<2816, 2816>>, <<2820, 2820>>, <<2829, 2830>>,
     <<2833, 2834>>, <<2857, 2857>>, <<2865, 2865>>, <<2868, 2868>>,
     <<2874, 2875>>, <<2885, 2886>>, <<2889, 2890>>, <<2894, 2900>>,
     <<2904, 2907>>, <<2910, 2910>>, <<2916, 2917>>, <<2936, 2945>>,
     <<2948, 2948>>, <<2955, 2957>>, <<2961, 2961>>, <<2966, 2968>>,
     <<2971, 2971>>, <<2973, 2973>>, <<2976, 2978>>, <<2981, 2983>>,
     <<2987, 2989>>, <<3002, 3005>>, <<3011, 3013>>, <<3017, 3017>>,
     <<3022, 3023>>, <<3025, 3030>>, <<3032, 3045>>, <<3067, 3071>>,
     <<3085, 3085>>, <<3089, 3089>>, <<3113, 3113>>, <<3130, 3131>>,
     <<3141, 3141>>, <<3145, 3145>>, <<3150, 3156>>, <<3159, 3159>>,
     <<3163, 3164>>, <<3166, 3167>>, <<3172, 3173>>, <<3184, 3190>>,
     <<3213, 3213>>, <<3217, 3217>>, <<3241, 3241>>, <<3252, 3252>>,
     <<3258, 3259>>, <<3269, 3269>>, <<3273, 3273>>, <<3278, 3284>>,
     <<3287, 3292>>, <<3295, 3295>>, <<3300, 3301>>, <<3312, 3312>>,
     <<3315, 3327>>, <<3341, 3341>>, <<3345, 3345>>, <<3397, 3397>>,
     <<3401, 3401>>, <<3408, 3411>>, <<3428, 3429>>, <<3456, 3456>>,
     <<3460, 3460>>, <<3479, 3481>>, <<3506, 3506>>, <<3516, 3516>>,
     <<3518, 3519>>, <<3527, 3529>>, <<3531, 3534>>, <<3541, 3541>>,
     <<3543, 3543>>, <<3552, 3557>>, <<3568, 3569>>, <<3573, 3584>>,
     <<3643, 3646>>, <<3676, 3712>>, <<3715, 3715>>, <<3717, 3717>>,
     <<3723, 3723>>, <<3748, 3748>>, <<3750, 3750>>, <<3774, 3775>>,
     <<3781, 3781>>, <<3783, 3783>>, <<3790, 3791>>, <<3802, 3803>>,
     <<3808, 3839>>, <<3912, 3912>>, <<3949, 3952>>, <<3992, 3992>>,
     <<4029, 4029>>, <<4045, 4045>>, <<4059, 4095>>, <<4294, 4294>>,
     <<4296, 4300>>, <<4302, 4303>>, <<4681, 4681>>, <<4686, 4687>>,
     <<4695, 4695>>, <<4697, 4697>>, <<4702, 4703>>, <<4745, 4745>>,
     <<4750, 4751>>, <<4785, 4785>>, <<4790, 4791>>, <<4799, 4799>>,
     <<4801, 4801>>, <<4806, 4807>>, <<4823, 4823>>, <<4881, 4881>>,
     <<4886, 4887>>, <<4955, 4956>>, <<4989, 4991>>, <<5018, 5023>>,
     <<5110, 5111>>, <<5118, 5119>>, <<5760, 5760>>, <<5789, 5791>>,
     <<5881, 5887>>, <<5910, 5918>>, <<5943, 5951>>, <<5972, 5983>>,
     <<5997, 5997>>, <<6001, 6001>>, <<6004, 6015>>, <<6110, 6111>>,
     <<6122, 6127>>, <<6138, 6143>>, <<6158, 6158>>, <<6170, 6175>>,
     <<6265, 6271>>, <<6315, 6319>>, <<6390, 6399>>, <<6431, 6431>>,
     <<6444, 6447>>, <<6460, 6463>>, <<6465, 6467>>, <<6510, 6511>>,
     <<6517, 6527>>, <<6572, 6575>>, <<6602, 6607>>, <<6619, 6621>>,
     <<6684, 6685>>, <<6751, 6751>>, <<6781, 6782>>, <<6794, 6799>>,
     <<6810, 6815>>, <<6830, 6831>>, <<6863, 6911>>, <<6989, 6991>>,
     <<7039, 7039>>, <<7156, 7163>>, <<7224, 7226>>, <<7242, 7244>>,
     <<7305, 7311>>, <<7355, 7356>>, <<7368, 7375>>, <<7419, 7423>>,
     <<7958, 7959>>, <<7966, 7967>>, <<8006, 8007>>, <<8014, 8015>>,
     <<8024, 8024>>, <<8026, 8026>>, <<8028, 8028>>, <<8030, 8030>>,
     <<8062, 8063>>, <<8117, 8117>>, <<8133, 8133>>, <<8148, 8149>>,
     <<8156, 8156>>, <<8176, 8177>>, <<8181, 8181>>, <<8191, 8207>>,
     <<8232, 8239>>, <<8287, 8303>>, <<8306, 8307>>, <<8335, 8335>>,
     <<8349, 8351>>, <<8385, 8399>>, <<8433, 8447>>, <<8588, 8591>>,
     <<9255, 9279>>, <<9291, 9311>>, <<11124, 11125>>, <<11158, 11158>>,
     <<11508, 11512>>, <<11558, 11558>>, <<11560, 11564>>, <<11566, 11567>>,
     <<11624, 11630>>, <<11633, 11646>>, <<11671, 11679>>, <<11687, 11687>>,
     <<11695, 11695>>, <<11703, 11703>>, <<11711, 11711>>, <<11719, 11719>>,
     <<11727, 11727>>, <<11735, 11735>>, <<11743, 11743>>, <<11870, 11903>>,
     <<11930, 11930>>, <<12020, 12031>>, <<12246, 12271>>, <<12284, 12288>>,
     <<12352, 12352>>, <<12439, 12440>>, <<12544, 12548>>, <<12592, 12592>>,
     <<12687, 12687>>, <<12772, 12783>>, <<12831, 12831>>, <<42125, 42127>>,
     <<42183, 42191>>, <<42540, 42559>>, <<42744, 42751>>, <<42955, 42959>>,
     <<42962, 42962>>, <<42964, 42964>>, <<42970, 42993>>, <<43053, 43055>>,
     <<43066, 43071>>, <<43128, 43135>>, <<43206, 43213>>, <<43226, 43231>>,
     <<43348, 43358>>, <<43389, 43391>>, <<43470, 43470>>, <<43482, 43485>>,
     <<43519, 43519>>, <<43575, 43583>>, <<43598, 43599>>, <<43610, 43611>>,
     <<43715, 43738>>, <<43767, 43776>>, <<43783, 43784>>, <<43791, 43792>>,
     <<43799, 43807>>, <<43815, 43815>>, <<43823, 43823>>, <<43884, 43887>>,
     <<44014, 44015>>, <<44026, 44031>>, <<55204, 55215>>, <<55239, 55242>>,
     <<55292, 63743>>, <<64110, 64111>>, <<64218, 64255>>, <<64263, 64274>>,
     <<64280, 64284>>, <<64311, 64311>>, <<64317, 64317>>, <<64319, 64319>>,
     <<64322, 64322>>, <<64325, 64325>>, <<64451, 64466>>, <<64912, 64913>>,
     <<64968, 64974>>, <<64976, 65007>>, <<65050, 65055>>, <<65107, 65107>>,
     <<65127, 65127>>, <<65132, 65135>>, <<65141, 65141>>, <<65277, 65280>>,
     <<65471, 65473>>, <<65480, 65481>>, <<65488, 65489>>, <<65496, 65497>>,
     <<65501, 65503>>, <<65511, 65511>>, <<65519, 65531>>, <<65534, 65535>>,
     <<65548, 65548>>, <<65575, 65575>>, <<65595, 65595>>, <<65598, 65598>>,
     <<65614, 65615>>, <<65630, 65663>>, <<65787, 65791>>, <<65795, 65798>>,
     <<65844, 65846>>, <<65935, 65935>>, <<65949, 65951>>, <<65953, 65999>>,
     <<66046, 66175>>, <<66205, 66207>>, <<66257, 66271>>, <<66300, 66303>>,
     <<66340, 66348>>, <<66379, 66383>>, <<66427, 66431>>, <<66462, 66462>>,
     <<66500, 66503>>, <<66518, 66559>>, <<66718, 66719>>, <<66730, 66735>>,
     <<66772, 66775>>, <<66812, 66815>>, <<66856, 66863>>, <<66916, 66926>>,
     <<66939, 66939>>, <<66955, 66955>>, <<66963, 66963>>, <<66966, 66966>>,
     <<66978, 66978>>, <<66994, 66994>>, <<67002, 67002>>, <<67005, 67071>>,
     <<67383, 67391>>, <<67414, 67423>>, <<67432, 67455>>, <<67462, 67462>>,
     <<67505, 67505>>, <<67515, 67583>>, <<67590, 67591>>, <<67593, 67593>>,
     <<67638, 67638>>, <<67641, 67643>>, <<67645, 67646>>, <<67670, 67670>>,
     <<67743, 67750>>, <<67760, 67807>>, <<67827, 67827>>, <<67830, 67834>>,
     <<67868, 67870>>, <<67898, 67902>>, <<67904, 67967>>, <<68024, 68027>>,
     <<68048, 68049>>, <<68100, 68100>>, <<68103, 68107>>, <<68116, 68116>>,
     <<68120, 68120>>, <<68150, 68151>>, <<68155, 68158>>, <<68169, 68175>>,
     <<68185, 68191>>, <<68256, 68287>>, <<68327, 68330>>, <<68343, 68351>>,
     <<68406, 68408>>, <<68438, 68439>>, <<68467, 68471>>, <<68498, 68504>>,
     <<68509, 68520>>, <<68528, 68607>>, <<68681, 68735>>, <<68787, 68799>>,
     <<68851, 68857>>, <<68904, 68911>>, <<68922, 69215>>, <<69247, 69247>>,
     <<69290, 69290>>, <<69294, 69295>>, <<69298, 69375>>, <<69416, 69423>>,
     <<69466, 69487>>, <<69514, 69551>>, <<69580, 69599>>, <<69623, 69631>>,
     <<69710, 69713>>, <<69750, 69758>>, <<69821, 69821>>, <<69827, 69839>>,
     <<69865, 69871>>, <<69882, 69887>>, <<69941, 69941>>, <<69960, 69967>>,
     <<70007, 70015>>, <<70112, 70112>>, <<70133, 70143>>, <<70162, 70162>>,
     <<70207, 70271>>, <<70279, 70279>>, <<70281, 70281>>, <<70286, 70286>>,
     <<70302, 70302>>, <<70314, 70319>>, <<70379, 70383>>, <<70394, 70399>>,
     <<70404, 70404>>, <<70413, 70414>>, <<70417, 70418>>, <<70441, 70441>>,
     <<70449, 70449>>, <<70452, 70452>>, <<70458, 70458>>, <<70469, 70470>>,
     <<70473, 70474>>, <<70478, 70479>>, <<70481, 70486>>, <<70488, 70492>>,
     <<70500, 70501>>, <<70509, 70511>>, <<70517, 70655>>, <<70748, 70748>>,
     <<70754, 70783>>, <<70856, 70863>>, <<70874, 71039>>, <<71094, 71095>>,
     <<71134, 71167>>, <<71237, 71247>>, <<71258, 71263>>, <<71277, 71295>>,
     <<71354, 71359>>, <<71370, 71423>>, <<71451, 71452>>, <<71468, 71471>>,
     <<71495, 71679>>, <<71740, 71839>>, <<71923, 71934>>, <<71943, 71944>>,
     <<71946, 71947>>, <<71956, 71956>>, <<71959, 71959>>, <<71990, 71990>>,
     <<71993, 71994>>, <<72007, 72015>>, <<72026, 72095>>, <<72104, 72105>>,
     <<72152, 72153>>, <<72165, 72191>>, <<72264, 72271>>, <<72355, 72367>>,
     <<72441, 72703>>, <<72713, 72713>>, <<72759, 72759>>, <<72774, 72783>>,
     <<72813, 72815>>, <<72848, 72849>>, <<72872, 72872>>, <<72887, 72959>>,
     <<72967, 72967>>, <<72970, 72970>>, <<73015, 73017>>, <<73019, 73019>>,
     <<73022, 73022>>, <<73032, 73039>>, <<73050, 73055>>, <<73062, 73062>>,
     <<73065, 73065>>, <<73103, 73103>>, <<73106, 73106>>, <<73113, 73119>>,
     <<73130, 73439>>, <<73465, 73647>>, <<73649, 73663>>, <<73714, 73726>>,
     <<74650, 74751>>, <<74863, 74863>>, <<74869, 74879>>, <<75076, 77711>>,
     <<77811, 77823>>, <<78895, 82943>>, <<83527, 92159>>, <<92729, 92735>>,
     <<92767, 92767>>, <<92778, 92781>>, <<92863, 92863>>, <<92874, 92879>>,
     <<92910, 92911>>, <<92918, 92927>>, <<92998, 93007>>, <<93018, 93018>>,
     <<93026, 93026>>, <<93048, 93052>>, <<93072, 93759>>, <<93851, 93951>>,
     <<94027, 94030>>, <<94088, 94094>>, <<94112, 94175>>, <<94181, 94191>>,
     <<94194, 94207>>, <<100344, 100351>>, <<101590, 101631>>,
     <<101641, 110575>>, <<110580, 110580>>, <<110588, 110588>>,
     <<110591, 110591>>, <<110883, 110927>>, <<110931, 110947>>,
     <<110952, 110959>>, <<111356, 113663>>, <<113771, 113775>>,
     <<113789, 113791>>, <<113801, 113807>>, <<113818, 113819>>,
     <<113824, 118527>>, <<118574, 118575>>, <<118599, 118607>>,
     <<118724, 118783>>, <<119030, 119039>>, <<119079, 119080>>,
     <<119155, 119162>>, <<119275, 119295>>, <<119366, 119519>>,
     <<119540, 119551>>, <<119639, 119647>>, <<119673, 119807>>,
     <<119893, 119893>>, <<119965, 119965>>, <<119968, 119969>>,
     <<119971, 119972>>, <<119975, 119976>>, <<119981, 119981>>,
     <<119994, 119994>>, <<119996, 119996>>, <<120004, 120004>>,
     <<120070, 120070>>, <<120075, 120076>>, <<120085, 120085>>,
     <<120093, 120093>>, <<120122, 120122>>, <<120127, 120127>>,
     <<120133, 120133>>, <<120135, 120137>>, <<120145, 120145>>,
     <<120486, 120487>>, <<120780, 120781>>, <<121484, 121498>>,
     <<121504, 121504>>, <<121520, 122623>>, <<122655, 122879>>,
     <<122887, 122887>>, <<122905, 122906>>, <<122914, 122914>>,
     <<122917, 122917>>, <<122923, 123135>>, <<123181, 123183>>,
     <<123198, 123199>>, <<123210, 123213>>, <<123216, 123535>>,
     <<123567, 123583>>, <<123642, 123646>>, <<123648, 124895>>,
     <<124903, 124903>>, <<124908, 124908>>, <<124911, 124911>>,
     <<124927, 124927>>, <<125125, 125126>>, <<125143, 125183>>,
     <<125260, 125263>>, <<125274, 125277>>, <<125280, 126064>>,
     <<126133, 126208>>, <<126270, 126463>>, <<126468, 126468>>,
     <<126496, 126496>>, <<126499, 126499>>, <<126501, 126502>>,
     <<126504, 126504>>, <<126515, 126515>>, <<126520, 126520>>,
     <<126522, 126522>>, <<126524, 126529>>, <<126531, 126534>>,
     <<126536, 126536>>, <<126538, 126538>>, <<126540, 126540>>,
     <<126544, 126544>>, <<126547, 126547>>, <<126549, 126550>>,
     <<126552, 126552>>, <<126554, 126554>>, <<126556, 126556>>,
     <<126558, 126558>>, <<126560, 126560>>, <<126563, 126563>>,
     <<126565, 126566>>, <<126571, 126571>>, <<126579, 126579>>,
     <<126584, 126584>>, <<126589, 126589>>, <<126591, 126591>>,
     <<126602, 126602>>, <<126620, 126624>>, <<126628, 126628>>,
     <<126634, 126634>>, <<126652, 126703>>, <<126706, 126975>>,
     <<127020, 127023>>, <<127124, 127135>>, <<127151, 127152>>,
     <<127168, 127168>>, <<127184, 127184>>, <<127222, 127231>>,
     <<127406, 127461>>, <<127491, 127503>>, <<127548, 127551>>,
     <<127561, 127567>>, <<127570, 127583>>, <<127590, 127743>>,
     <<128728, 128732>>, <<128749, 128751>>, <<128765, 128767>>,
     <<128884, 128895>>, <<128985, 128991>>, <<129004, 129007>>,
     <<129009, 129023>>, <<129036, 129039>>, <<129096, 129103>>,
     <<129114, 129119>>, <<129160, 129167>>, <<129198, 129199>>,
     <<129202, 129279>>, <<129620, 129631>>, <<129646, 129647>>,
     <<129653, 129655>>, <<129661, 129663>>, <<129671, 129679>>,
     <<129709, 129711>>, <<129723, 129727>>, <<129734, 129743>>,
     <<129754, 129759>>, <<129768, 129775>>, <<129783, 129791>>,
     <<129939, 129939>>, <<129995, 130031>>, <<130042, 131071>>,
     <<173792, 173823>>, <<177977, 177983>>, <<178206, 178207>>,
     <<183970, 183983>>, <<191457, 194559>>, <<195102, 196607>>,
     <<201547, 917759>>, <<918000, 1114111>>}

\* repr() of a str: in single quotes, or in double quotes when the text
\* holds a single quote and no double quote; the quote and the backslash
\* escaped, and every character that is not printable
unicode_repr(s) ==
    LET chars == {s[i] : i \in 1..Len(s)}
        quote == IF 39 \in chars /\ 34 \notin chars THEN 34 ELSE 39
        escaped(c) ==
            IF c = quote \/ c = 92 THEN <<92, c>>
            ELSE IF c = 9 THEN <<92, 116>>
            ELSE IF c = 10 THEN <<92, 110>>
            ELSE IF c = 13 THEN <<92, 114>>
            ELSE IF c < 32 \/ c = 127 THEN <<92, 120>> \o Hex(c, 2)
            ELSE IF c < 127 THEN <<c>>
            ELSE IF ~InRanges(c, NonPrintable) THEN <<c>>
            ELSE IF c <= 255 THEN <<92, 120>> \o Hex(c, 2)
            ELSE IF c <= 65535 THEN <<92, 117>> \o Hex(c, 4)
            ELSE <<92, 85>> \o Hex(c, 8)
    IN  <<quote>> \o join(<<>>, [i \in 1..Len(s) |-> escaped(s[i])])
        \o <<quote>>

\* Whole numbers of any size, for the digits of a float: the digits of base
\* 2^15, the lowest first, the highest not zero.
RECURSIVE Trim(_)
Trim(x) ==
    IF x # <<>> /\ x[Len(x)] = 0 THEN Trim(SubSeq(x, 1, Len(x) - 1)) ELSE x

RECURSIVE BigTimesFrom(_, _, _, _)
BigTimesFrom(x, n, i, carry) ==
    IF i > Len(x) THEN (IF carry = 0 THEN <<>> ELSE <<carry>>)
    ELSE LET t == x[i] * n + carry
         IN  <<t % Base>> \o BigTimesFrom(x, n, i + 1, t \div Base)

\* x * n, for 0 <= n < 2^15
BigTimes(x, n) == IF n = 0 THEN <<>> ELSE BigTimesFrom(x, n, 1, 0)

\* x * 2^e
BigShift(x, e) ==
    IF x = <<>> THEN <<>>
    ELSE [i \in 1..(e \div BitsPerDigit) |-> 0]
         \o BigTimes(x, Pow2(e % BitsPerDigit))

RECURSIVE BigPlusFrom(_, _, _, _)
BigPlusFrom(x, y, i, carry) ==
    IF i > Len(x) /\ i > Len(y)
    THEN (IF carry = 0 THEN <<>> ELSE <<carry>>)
    ELSE LET t == (IF i <= Len(x) THEN x[i] ELSE 0)
                  + (IF i <= Len(y) THEN y[i] ELSE 0) + carry
         IN  <<t % Base>> \o BigPlusFrom(x, y, i + 1, t \div Base)

BigPlus(x, y) == BigPlusFrom(x, y, 1, 0)

\* x - y, for x >= y
RECURSIVE BigMinusFrom(_, _, _, _)
BigMinusFrom(x, y, i, borrow) ==
    IF i > Len(x) THEN <<>>
    ELSE LET t == x[i] - (IF i <= Len(y) THEN y[i] ELSE 0) - borrow
         IN  <<t % Base>> \o BigMinusFrom(x, y, i + 1, IF t < 0 THEN 1 ELSE 0)

BigMinus(x, y) == Trim(BigMinusFrom(x, y, 1, 0))

\* x < y
BigLess(x, y) ==
    IF Len(x) # Len(y) THEN Len(x) < Len(y)
    ELSE \E i \in 1..Len(x) :
            /\ x[i] < y[i]
            /\ \A j \in (i + 1)..Len(x) : x[j] = y[j]

\* The shortest decimal digits that name a float and no other float, and
\* of those the nearest to it: float_repr_style "short".  The float is
\* r / s, the floats nearest to it are half of m- below and half of m+
\* above, the digits found stand for 0.d1 d2 ... * 10^k.
\* the sum r + m+ reaches s (the next float, or passes the middle to it)
High(st) ==
    LET t == BigPlus(st.r, st.mp)
    IN  IF st.even THEN ~BigLess(t, st.s) ELSE BigLess(st.s, t)

Times10(st) ==
    [st EXCEPT !.r = BigTimes(@, 10), !.mp = BigTimes(@, 10),
               !.mm = BigTimes(@, 10)]

\* x * 10^n
RECURSIVE TimesPow10(_, _)
TimesPow10(x, n) ==
    IF n = 0 \/ x = <<>> THEN x
    ELSE IF n = 1 THEN BigTimes(x, 10)
    ELSE TimesPow10(TimesPow10(x, n \div 2), n - (n \div 2))

\* the scale 10^k of the digits, guessed and then put right: k is made
\* the lowest for which (r + m+) / s is below 1
RECURSIVE ScaleUp(_)
ScaleUp(st) ==
    IF High(st)
    THEN ScaleUp([st EXCEPT !.s = BigTimes(@, 10), !.k = @ + 1])
    ELSE st

RECURSIVE ScaleDown(_)
ScaleDown(st) ==
    IF ~High(Times10(st))
    THEN ScaleDown([Times10(st) EXCEPT !.k = @ - 1])
    ELSE st

Scale(st, k) ==
    ScaleDown(ScaleUp(
        IF k >= 0 THEN [st EXCEPT !.s = TimesPow10(@, k), !.k = k]
        ELSE [st EXCEPT !.r = TimesPow10(@, -k), !.mp = TimesPow10(@, -k),
                        !.mm = TimesPow10(@, -k), !.k = k]))

RECURSIVE Generate(_)
Generate(st) ==
    LET t == Times10(st)
        d == CHOOSE n \in 0..9 :
                 /\ ~BigLess(t.r, BigTimes(t.s, n))
                 /\ BigLess(t.r, BigTimes(t.s, n + 1))
        r == BigMinus(t.r, BigTimes(t.s, d))
        low == IF t.even THEN ~BigLess(t.mm, r) ELSE BigLess(r, t.mm)
        high == High([t EXCEPT !.r = r])
        twice == BigTimes(r, 2)
    IN  IF ~low /\ ~high THEN <<d>> \o Generate([t EXCEPT !.r = r])
        ELSE IF low /\ ~high THEN <<d>>
        ELSE IF high /\ ~low THEN <<d + 1>>
        ELSE IF BigLess(twice, t.s) \/ (twice = t.s /\ d % 2 = 0) THEN <<d>>
        ELSE <<d + 1>>

\* the digits and the place of the point of a float that is not zero,
\* infinite or nan
ShortestDigits(v) ==
    LET F == v.fraction
        f == IF v.exponent = 0 THEN Trim(<<F[4], F[3], F[2], F[1]>>)
             ELSE <<F[4], F[3], F[2], F[1] + 128>>
        e == IF v.exponent = 0 THEN -1074 ELSE v.exponent - 1075
        u == IF F = <<0, 0, 0, 0>> /\ v.exponent > 1 THEN 1 ELSE 0
        start == IF e >= 0
                 THEN [r |-> BigShift(f, e + 1 + u), s |-> <<Pow2(1 + u)>>,
                       mp |-> BigShift(<<1>>, e + u),
                       mm |-> BigShift(<<1>>, e)]
                 ELSE [r |-> BigShift(f, 1 + u),
                       s |-> BigShift(<<1>>, 1 + u - e),
                       mp |-> <<Pow2(u)>>, mm |-> <<1>>]
        scaled == Scale(start @@ [even |-> F[4] % 2 = 0, k |-> 0],
                        ((e + 52) * 30103) \div 100000)
    IN  [digits |-> Generate(scaled), k |-> scaled.k]

\* repr() of a float
float_repr(v) ==
    LET sign == IF v.sign = 1 THEN <<45>> ELSE <<>>
    IN  IF v.exponent = 2047
        THEN IF v.fraction # <<0, 0, 0, 0>> THEN Text("nan")
             ELSE sign \o Text("inf")
        ELSE IF v.exponent = 0 /\ v.fraction = <<0, 0, 0, 0>>
        THEN sign \o Text("0.0")
        ELSE LET sd == ShortestDigits(v)
                 n == Len(sd.digits)
                 k == sd.k
                 t == [i \in 1..n |-> 48 + sd.digits[i]]
                 zeros(m) == [i \in 1..m |-> 48]
                 x == k - 1
             IN  sign \o
                 (IF k <= -4 \/ k > 16
                  THEN <<t[1]>>
                       \o (IF n > 1 THEN <<46>> \o SubSeq(t, 2, n) ELSE <<>>)
                       \o <<101, IF x < 0 THEN 45 ELSE 43>>
                       \o (IF x > -10 /\ x < 10 THEN <<48>> ELSE <<>>)
                       \o Decimal(IF x < 0 THEN -x ELSE x)
                  ELSE IF k <= 0 THEN Text("0.") \o zeros(-k) \o t
                  ELSE IF k >= n THEN t \o zeros(k - n) \o Text(".0")
                  ELSE SubSeq(t, 1, k) \o <<46>> \o SubSeq(t, k + 1, n))

\* repr() of a value
RECURSIVE repr(_)
repr(v) ==
    CASE v.t = "null" -> Text("None")
      [] v.t = "bool" -> IF v.b THEN Text("True") ELSE Text("False")
      [] v.t = "num" -> IF v.n < 0 THEN <<45>> \o Decimal(-v.n)
                        ELSE Decimal(v.n)
      [] v.t = "float" -> float_repr(v)
      [] v.t = "str" -> unicode_repr(v.s)
      [] v.t = "list" ->
            <<91>> \o join(Text(", "), [i \in 1..Len(v.items) |->
                                          repr(v.items[i])])
            \o <<93>>
      [] v.t = "pairs" ->
            <<123>> \o join(Text(", "), [i \in 1..Len(v.pairs) |->
                           unicode_repr(v.pairs[i][1]) \o Text(": ")
                           \o repr(v.pairs[i][2])])
            \o <<125>>

\* str() of a value
str(v) == IF v.t = "str" THEN v.s ELSE repr(v)

\* SimpleRAGService._initialize_default_knowledge: the documents the service
\* holds when it is built without a knowledge-base file
default_docs == <<
    [content |->
        Text("Swiftly is an AI-powered admin life concierge application "
             \o "designed to simplify scheduling, task management, "
             \o "reminders, and productivity optimization through "
             \o "intelligent automation."),
     metadata |-> [type |-> JStr(Text("product_overview")),
                   category |-> JStr(Text("general"))]],
    [content |->
        Text("Swiftly features include: AI-powered task creation from "
             \o "natural language, multiple task views (Kanban, Calendar, "
             \o "List, Gantt), smart scheduling optimization, team "
          \o "collaboration, and integrations with third-party services."),
     metadata |-> [type |-> JStr(Text("features")),
                   category |-> JStr(Text("functionality"))]],
    [content |->
        Text("The Swiftly AI assistant can help with task management, "
             \o "scheduling, productivity insights, and answering questions "
             \o "about your workflow and productivity patterns."),
     metadata |-> [type |-> JStr(Text("ai_capabilities")),
                   category |-> JStr(Text("assistant"))]],
    [content |->
        Text("Task priorities in Swiftly are categorized as: Low (nice to "
             \o "have, flexible deadlines), Medium (important but not "
          \o "urgent), High (urgent and important, immediate attention "
          \o "required)."),
     metadata |-> [type |-> JStr(Text("task_priorities")),
                   category |-> JStr(Text("tasks"))]],
    [content |->
        Text("Swiftly supports team collaboration through shared task "
             \o "boards, real-time updates, task assignment, and team "
             \o "calendar views. Team members can collaborate on projects "
             \o "and track progress together."),
     metadata |-> [type |-> JStr(Text("collaboration")),
                   category |-> JStr(Text("teams"))]],
    [content |->
        Text("The calendar view in Swiftly allows you to see tasks and "
             \o "events in month, week, and day views. You can drag and drop "
             \o "to reschedule tasks, and the calendar integrates with your "
             \o "existing calendar systems."),
     metadata |-> [type |-> JStr(Text("calendar")),
                   category |-> JStr(Text("scheduling"))]]>>

Init ==
    /\ conversations = EmptyDict
    /\ session_metadata = EmptyDict
    /\ clock = 0
    /\ last = [op |-> "init"]
    /\ appended = EmptyDict
    /\ model = TRUE
    /\ reqs = [r \in Requests |-> [pc |-> "idle"]]
    /\ turns = EmptyDict
    /\ mixed = {}
    /\ begun = 0
    /\ process = "serving"
    /\ services = [rag_service |-> TRUE, gemini_service |-> TRUE,
                   conversation_service |-> TRUE]
    /\ documents = default_docs

\* one add_message call whose four clock readings are t1..t4
AddMessageAt(s, role, content, timestamp, t1, t2, t3, t4) ==
    LET r == add_message(conversations, session_metadata, s, role,
                         content, timestamp, t1, t2, t3, t4)
        message == [role |-> role, content |-> content,
                    timestamp |-> IF timestamp # None
                                  THEN Val(timestamp) ELSE t3,
                    supplied |-> timestamp # None]
    IN  /\ TotalMsgs(conversations) < MaxMsgs
        /\ conversations' = r.conversations
        /\ session_metadata' = r.session_metadata
        /\ clock' = t4
        /\ last' = [op |-> "add_message", sid |-> s,
                    raised |-> r.raised, time |-> t4]
        /\ appended' = AppendedAfter(r.conversations, s,
                          IF r.raised THEN <<>> ELSE <<message>>)
        /\ UNCHANGED apiVars

\* add_message while the clock runs
AddMessage(s, role, content, timestamp) ==
    \E t1 \in Readings(clock, clock) : \E t2 \in Readings(clock, t1) :
    \E t3 \in Readings(clock, t2) : \E t4 \in Readings(clock, t3) :
        AddMessageAt(s, role, content, timestamp, t1, t2, t3, t4)

\* add_message without a timestamp, all within one reading of the clock
AddMessageNow(s, role, content) ==
    AddMessageAt(s, role, content, None, clock, clock, clock, clock)

GetConversationHistory(s, limit) ==
    /\ last' = [op |-> "get_conversation_history", sid |-> s,
                limit |-> limit,
                ret |-> get_conversation_history(conversations, s, limit)]
    /\ UNCHANGED <<conversations, session_metadata, clock, appended, apiVars>>

GetGeminiHistory(s) ==
    /\ last' = [op |-> "get_gemini_history", sid |-> s,
                ret |-> get_gemini_history(conversations, s)]
    /\ UNCHANGED <<conversations, session_metadata, clock, appended, apiVars>>

ClearSession(s) ==
    LET r == clear_session(conversations, session_metadata, s)
    IN  /\ conversations' = r.conversations
        /\ session_metadata' = r.session_metadata
        /\ last' = [op |-> "clear_session", sid |-> s, ret |-> r.ret,
                    raised |-> r.raised]
        /\ appended' = AppendedAfter(r.conversations, s, <<>>)
        /\ UNCHANGED <<clock, apiVars>>

GetSessionInfo(s) ==
    /\ last' = [op |-> "get_session_info", sid |-> s,
                ret |-> get_session_info(session_metadata, s)]
    /\ UNCHANGED <<conversations, session_metadata, clock, appended, apiVars>>

CleanupOldSessions(max_age_hours) ==
    \E current_time \in Readings(clock, clock) :
        LET r == cleanup_old_sessions(conversations, session_metadata,
                                      max_age_hours, current_time)
        IN  /\ conversations' = r.conversations
            /\ session_metadata' = r.session_metadata
            /\ clock' = current_time
            /\ last' = [op |-> "cleanup_old_sessions",
                        max_age_hours |-> max_age_hours,
                        time |-> current_time, ret |-> r.ret]
            /\ appended' = AppendedAfter(r.conversations,
                                         CHOOSE x \in SessionIds : TRUE,
                                         <<>>)
            /\ UNCHANGED apiVars

Tick ==
    /\ clock < MaxClock
    /\ clock' = clock + 1
    /\ last' = [op |-> "tick"]
    /\ UNCHANGED <<conversations, session_metadata, appended, apiVars>>

\* The store through time: the calls that change it, and the clock
Next ==
    \/ \E s \in SessionIds, role \in {"user", "system"},
          content \in {<<"a">>}, timestamp \in Timestamps :
         AddMessage(s, role, content, timestamp)
    \/ \E s \in SessionIds : ClearSession(s)
    \/ \E max_age_hours \in 0..MaxAgeHours : CleanupOldSessions(max_age_hours)
    \/ Tick

Spec == Init /\ [][Next]_vars

\* The store call by call: every operation of the service, reads included
NextCalls ==
    \/ \E s \in SessionIds, role \in Roles, content \in Contents :
         AddMessageNow(s, role, content)
    \/ \E s \in SessionIds, limit \in Limits : GetConversationHistory(s, limit)
    \/ \E s \in SessionIds : GetGeminiHistory(s)
    \/ \E s \in SessionIds : ClearSession(s)
    \/ \E s \in SessionIds : GetSessionInfo(s)

SpecCalls == Init /\ [][NextCalls]_vars

-----------------------------------------------------------------------------
(* The conversational routes: POST /ask and POST /ask-natural *)

\* the text generate_response returns when the external call raises
Apology ==
    <<"I", " ", "a", "p", "o", "l", "o", "g", "i", "z", "e", ",", " ", "b",
      "u", "t", " ", "I", "'", "m", " ", "h", "a", "v", "i", "n", "g", " ",
      "t", "r", "o", "u", "b", "l", "e", " ", "p", "r", "o", "c", "e", "s",
      "s", "i", "n", "g", " ", "y", "o", "u", "r", " ", "r", "e", "q", "u",
      "e", "s", "t", " ", "r", "i", "g", "h", "t", " ", "n", "o", "w", ".">>

\* The characters str.strip() and str.split() take for whitespace: those of
\* str.isspace().  Written here are U+0009 to U+000D, U+001C to U+001F,
\* U+0020, U+0085, U+00A0 and U+1680; the others (U+2000 to U+200A, U+2028,
\* U+2029, U+202F, U+205F, U+3000) cannot be written in a string of this
\* language and occur in no text followed here.
Whitespace ==
    {"\t", "\n", "", "\f", "\r", "", "", "", "", " ",
     "", " ", " "}

RECURSIVE lstrip(_)
lstrip(text) ==
    IF text # <<>> /\ Head(text) \in Whitespace THEN lstrip(Tail(text))
    ELSE text

RECURSIVE rstrip(_)
rstrip(text) ==
    IF text # <<>> /\ text[Len(text)] \in Whitespace
    THEN rstrip(SubSeq(text, 1, Len(text) - 1))
    ELSE text

\* a strip that takes nothing away
strip_nothing(text) == text

\* str.strip()
strip(text) == lstrip(rstrip(text))

\* the characters of a string
Chars(s) == [i \in 1..Len(s) |-> SubSeq(s, i, i)]

\* AskRequest.content / TaskIntentRequest.content: Field(..., min_length=1),
\* checked when the request body is read, before the route's function runs
ContentValid(content) == Len(content) >= 1

\* ConversationService.create_session_id: the clock in milliseconds, as a
\* decimal string
create_session_id(now) == ToString(now)

\* a route that always makes a new session id
session_id_of_always_new(request_session_id, now) ==
    create_session_id(now)

\* request.session_id or conversation.create_session_id()
session_id_of(request_session_id, now) ==
    IF request_session_id # None /\ Val(request_session_id) # ""
    THEN Val(request_session_id)
    ELSE create_session_id(now)

\* what the awaited external call can do: return a text, or raise
Raises == [raises |-> TRUE]
Returns(text) == [raises |-> FALSE, text |-> text]

\* the text of the error the external call raised
UpstreamError == <<"4", "2", "9", " ", "q", "u", "o", "t", "a">>

\* a generate_response that hands the caller the text of the error
generate_response_error_text(outcome) ==
    IF outcome.raises THEN UpstreamError ELSE strip(outcome.text)

\* generate_response / generate_rag_enhanced_response after the external
\* call: response.text.strip(), or the apology when anything raised
generate_response(outcome) ==
    IF outcome.raises THEN Apology ELSE strip(outcome.text)

\* the history passed on whole, the message of this request included
AllButLast_whole(history) == history

\* history[:-1]
AllButLast(history) == SubSeq(history, 1, Len(history) - 1)

\* content of whitespace only, with a character of it that is no space
BlankContent == <<"\r", " ">>

RequestContents == {<<>>, BlankContent, <<"a">>, <<"b">>}
RequestSessionIds == {None, Some(""), Some("s1")}
Outcomes == {Raises, Returns(<<" ", "o", "k", "\r", "\n">>)}
Kinds == {"ask", "ask_natural"}

InFlight(s) == {r \in Requests : reqs[r].pc = "awaiting"
                                  /\ reqs[r].session_id = s}

TurnsOf(s) == IF s \in DOMAIN turns THEN turns[s] ELSE <<>>

\* the turns of a session once a reply has come: it answers the oldest
\* turn that waits for one
Replied(ts, ai_response) ==
    LET waiting == {i \in 1..Len(ts) : ts[i].response = None}
    IN  IF waiting = {}
        THEN Append(ts, [content |-> None, response |-> Some(ai_response)])
        ELSE LET i == CHOOSE x \in waiting : \A y \in waiting : x <= y
             IN  [ts EXCEPT ![i].response = Some(ai_response)]

\* ask_gemini / ask_natural up to the awaited external call: the validation
\* of the request body, the check of the content, the session id, the append
\* of the user message, the read of the history and the call of
\* generate_response / generate_rag_enhanced_response with its model-handle
\* check
AskBegin(r, kind, content, request_session_id) ==
    /\ process = "serving"
    /\ reqs[r].pc = "idle"
    /\ begun < MaxTurns
    /\ IF ~ContentValid(content)
       THEN \* the body does not validate: 422, the function is not entered
            /\ last' = [op |-> kind, request_session_id |-> request_session_id,
                        content |-> content, status |-> 422]
            /\ UNCHANGED <<conversations, session_metadata, clock, appended,
                           apiVars>>
       ELSE IF strip(content) = <<>>
       THEN \* HTTPException(400)
            /\ last' = [op |-> kind, request_session_id |-> request_session_id,
                        content |-> content, status |-> 400]
            /\ UNCHANGED <<conversations, session_metadata, clock, appended,
                           apiVars>>
       ELSE LET session_id == session_id_of(request_session_id, clock)
                a == add_message(conversations, session_metadata, session_id,
                                 "user", content, None,
                                 clock, clock, clock, clock)
                history == get_gemini_history(a.conversations, session_id)
                message == [role |-> "user", content |-> content,
                            timestamp |-> clock, supplied |-> FALSE]
            IN  /\ conversations' = a.conversations
                /\ session_metadata' = a.session_metadata
                /\ appended' = AppendedAfter(a.conversations, session_id,
                                             <<message>>)
                /\ begun' = begun + 1
                /\ UNCHANGED <<clock, serverVars>>
                /\ IF ~model
                   THEN \* HTTPException(503), raised again by the route
                        /\ last' = [op |-> kind,
                                    request_session_id |-> request_session_id,
                                    content |-> content, status |-> 503]
                        /\ mixed' = mixed \cup {session_id}
                        /\ UNCHANGED <<reqs, turns>>
                   ELSE \* the external call is made with history[:-1]
                        /\ last' = [op |-> kind, awaiting |-> TRUE,
                                    content |-> content,
                                    session_id |-> session_id,
                                    history |-> AllButLast(history)]
                        /\ reqs' = [reqs EXCEPT ![r] =
                              [pc |-> "awaiting", kind |-> kind,
                               request_session_id |-> request_session_id,
                               session_id |-> session_id]]
                        /\ mixed' = IF InFlight(session_id) # {}
                                       \/ (session_id \in DOMAIN conversations
                                           /\ session_id \notin DOMAIN turns)
                                    THEN mixed \cup {session_id} ELSE mixed
                        /\ turns' = DictSet(turns, session_id,
                                       Append(TurnsOf(session_id),
                                              [content |-> Some(content),
                                               response |-> None]))

\* ask_gemini / ask_natural from the return of the external call on: the
\* append of the assistant message and the response
AskComplete(r, outcome) ==
    /\ reqs[r].pc = "awaiting"
    /\ LET session_id == reqs[r].session_id
           ai_response == generate_response(outcome)
           a == add_message(conversations, session_metadata, session_id,
                            "assistant", ai_response, None,
                            clock, clock, clock, clock)
           message == [role |-> "assistant", content |-> ai_response,
                       timestamp |-> clock, supplied |-> FALSE]
       IN  /\ conversations' = a.conversations
           /\ session_metadata' = a.session_metadata
           /\ appended' = AppendedAfter(a.conversations, session_id,
                                        <<message>>)
           /\ reqs' = [reqs EXCEPT ![r] = [pc |-> "idle"]]
           /\ last' = [op |-> reqs[r].kind,
                       request_session_id |-> reqs[r].request_session_id,
                       status |-> 200,
                       external_raised |-> outcome.raises,
                       response |-> [response |-> ai_response,
                                     session_id |-> session_id]]
           /\ turns' = DictSet(turns, session_id,
                               Replied(TurnsOf(session_id), ai_response))
           /\ UNCHANGED <<clock, serverVars, mixed, begun>>

\* DELETE /conversation/{session_id}
ClearConversation(s) ==
    LET c == clear_session(conversations, session_metadata, s)
    IN  /\ process = "serving"
        /\ conversations' = c.conversations
        /\ session_metadata' = c.session_metadata
        /\ appended' = AppendedAfter(c.conversations, s, <<>>)
        /\ last' = [op |-> "clear_conversation", sid |-> s,
                    status |-> IF c.ret THEN 200 ELSE 404]
        /\ turns' = DictDel(turns, s)
        /\ mixed' = IF InFlight(s) # {} THEN mixed \cup {s} ELSE mixed \ {s}
        /\ UNCHANGED <<clock, serverVars, reqs, begun>>

ApiSessionIds == {"s1"} \cup {create_session_id(t) : t \in 0..MaxClock}

\* The routes, followed within one reading of the clock
NextApi ==
    \/ \E r \in Requests, kind \in Kinds, content \in RequestContents,
          request_session_id \in RequestSessionIds :
         AskBegin(r, kind, content, request_session_id)
    \/ \E r \in Requests, outcome \in Outcomes : AskComplete(r, outcome)
    \/ \E s \in ApiSessionIds : ClearConversation(s)

SpecApi == Init /\ [][NextApi]_vars

-----------------------------------------------------------------------------
(* Turns of one session in flight together *)
(*                                                                         *)
(* A route runs without interruption up to its awaited external call and   *)
(* again from the return of that call on; between the two any other        *)
(* request, a DELETE of the conversation or a cleanup of the store can     *)
(* run.                                                                    *)

TurnContents == {<<"a">>, <<"b">>}

\* ConversationService.cleanup_old_sessions called on the store the routes
\* use, while requests may be waiting for the external call
CleanupSessions(max_age_hours) ==
    LET r == cleanup_old_sessions(conversations, session_metadata,
                                  max_age_hours, clock)
        removed == DOMAIN conversations \ DOMAIN r.conversations
    IN  /\ process = "serving"
        /\ conversations' = r.conversations
        /\ session_metadata' = r.session_metadata
        /\ appended' = AppendedAfter(r.conversations,
                                     CHOOSE x \in SessionIds : TRUE, <<>>)
        /\ last' = [op |-> "cleanup_old_sessions",
                    max_age_hours |-> max_age_hours,
                    time |-> clock, ret |-> r.ret]
        /\ turns' = [s \in DOMAIN turns \ removed |-> turns[s]]
        /\ mixed' = (mixed \ removed)
                    \cup {s \in removed : InFlight(s) # {}}
        /\ UNCHANGED <<clock, serverVars, reqs, begun>>

\* The routes on one session id, with the store's cleanup and the clock
NextTurns ==
    \/ \E r \in Requests, kind \in Kinds, content \in TurnContents :
         AskBegin(r, kind, content, Some("s1"))
    \/ \E r \in Requests, outcome \in Outcomes : AskComplete(r, outcome)
    \/ ClearConversation("s1")
    \/ CleanupSessions(0)
    \/ Tick

SpecTurns == Init /\ [][NextTurns]_vars

-----------------------------------------------------------------------------
(* The Intent Extractor: GeminiService.analyze_task_intent *)
(*                                                                         *)
(* The text of a response is a sequence of lexical tokens of JSON: the     *)
(* punctuation "{", "}", "[", "]", ":", ",", each character of whitespace, *)
(* the literals true, false and null, numbers, and strings in their        *)
(* quotes.                                                                 *)

\* the strings that occur in the responses
Strings == {"hasTaskIntent", "taskName", "dueDate", "priority",
            "needsClarity", "note", "call the dentist", "2025-01-01 15:00",
            "low", "medium", "high", "urgent", "maybe", "yes",
            "Yes"}

Quote(s) == "\"" \o s \o "\""

IsString(tok) == \E s \in Strings : Quote(s) = tok

Unquote(tok) == CHOOSE s \in Strings : Quote(s) = tok

Numbers == {"0", "1", "5"}

NumberValue(tok) == CASE tok = "0" -> 0 [] tok = "1" -> 1 [] tok = "5" -> 5

ParseError == [ok |-> FALSE]
Parsed(value, rest) == [ok |-> TRUE, value |-> value, rest |-> rest]

\* the whitespace json.loads skips before, between and after the tokens:
\* space, tab, line feed and carriage return, and no other character
JsonWhitespace == {" ", "\t", "\n", "\r"}

RECURSIVE skip_whitespace(_)
skip_whitespace(tokens) ==
    IF tokens # <<>> /\ Head(tokens) \in JsonWhitespace
    THEN skip_whitespace(Tail(tokens))
    ELSE tokens

RECURSIVE ParseValue(_), ParseMembers(_, _), ParseElements(_, _)

\* one JSON value at the head of the tokens, after optional whitespace
ParseValue(tokens) ==
    LET ts == skip_whitespace(tokens)
    IN  IF ts = <<>> THEN ParseError
        ELSE LET h == Head(ts)
             IN  IF h = "null" THEN Parsed(JNull, Tail(ts))
                 ELSE IF h = "true" THEN Parsed(JBool(TRUE), Tail(ts))
                 ELSE IF h = "false" THEN Parsed(JBool(FALSE), Tail(ts))
                 ELSE IF h \in Numbers
                 THEN Parsed(JNum(NumberValue(h)), Tail(ts))
                 ELSE IF IsString(h) THEN Parsed(JStr(Unquote(h)), Tail(ts))
                 ELSE IF h = "{"
                 THEN LET r == skip_whitespace(Tail(ts))
                      IN  IF r # <<>> /\ Head(r) = "}"
                          THEN Parsed(JDict(EmptyDict), Tail(r))
                          ELSE ParseMembers(r, EmptyDict)
                 ELSE IF h = "["
                 THEN LET r == skip_whitespace(Tail(ts))
                      IN  IF r # <<>> /\ Head(r) = "]"
                          THEN Parsed(JList(<<>>), Tail(r))
                          ELSE ParseElements(r, <<>>)
                 ELSE ParseError

\* "key": value pairs up to the closing brace; a key given twice keeps its
\* last value
ParseMembers(tokens, acc) ==
    LET ts == skip_whitespace(tokens)
    IN  IF ts = <<>> \/ ~IsString(Head(ts)) THEN ParseError
        ELSE LET key == Unquote(Head(ts))
                 c == skip_whitespace(Tail(ts))
             IN  IF c = <<>> \/ Head(c) # ":" THEN ParseError
                 ELSE LET v == ParseValue(Tail(c))
                      IN  IF ~v.ok THEN ParseError
                          ELSE LET r == skip_whitespace(v.rest)
                                   members == DictSet(acc, key, v.value)
                               IN  IF r = <<>> THEN ParseError
                                   ELSE IF Head(r) = "}"
                                   THEN Parsed(JDict(members), Tail(r))
                                   ELSE IF Head(r) = ","
                                   THEN ParseMembers(Tail(r), members)
                                   ELSE ParseError

\* values up to the closing bracket
ParseElements(tokens, acc) ==
    LET v == ParseValue(tokens)
    IN  IF ~v.ok THEN ParseError
        ELSE LET r == skip_whitespace(v.rest)
                 items == Append(acc, v.value)
             IN  IF r = <<>> THEN ParseError
                 ELSE IF Head(r) = "]" THEN Parsed(JList(items), Tail(r))
                 ELSE IF Head(r) = "," THEN ParseElements(Tail(r), items)
                 ELSE ParseError

\* json.loads: one value and nothing but whitespace after it; anything else
\* is a JSONDecodeError
json_loads(text) ==
    LET v == ParseValue(text)
    IN  IF v.ok /\ skip_whitespace(v.rest) = <<>> THEN v ELSE ParseError

\* dict.get(key, default)
get(members, key, default) ==
    IF key \in DOMAIN members THEN members[key] ELSE default

\* the validation of TaskIntentResponse.  A bool field takes a bool, the
\* numbers 0 and 1 and the words of true and false, in letters of either
\* case; Optional[str] takes a string or None; priority also has to match
\* ^(low|medium|high)$.
TrueWords == {"1", "on", "t", "true", "y", "yes"}
FalseWords == {"0", "off", "f", "false", "n", "no"}

\* The letters of ASCII, which are all that the comparison of a string
\* with the words of true and false puts in lower case: no other letter
\* becomes a letter of these words.
UpperCase == Chars("ABCDEFGHIJKLMNOPQRSTUVWXYZ")
LowerCase == Chars("abcdefghijklmnopqrstuvwxyz")

LowerOf ==
    [c \in {UpperCase[k] : k \in 1..Len(UpperCase)} |->
        LowerCase[CHOOSE k \in 1..Len(UpperCase) : UpperCase[k] = c]]

to_ascii_lowercase(text) ==
    [i \in 1..Len(text) |->
        IF text[i] \in DOMAIN LowerOf THEN LowerOf[text[i]] ELSE text[i]]

\* the string is one of the words, the case of its letters put aside
IsWord(s, words) ==
    \E w \in words : Chars(w) = to_ascii_lowercase(Chars(s))

BoolValid(v) ==
    \/ v.t = "bool"
    \/ v.t = "num" /\ v.n \in {0, 1}
    \/ v.t = "str" /\ IsWord(v.s, TrueWords \cup FalseWords)

BoolOf(v) ==
    IF v.t = "bool" THEN v.b
    ELSE IF v.t = "num" THEN v.n = 1
    ELSE IsWord(v.s, TrueWords)

OptionalStrValid(v) == v.t \in {"null", "str"}

OptionalStrOf(v) == IF v.t = "null" THEN None ELSE Some(v.s)

Priorities == {"low", "medium", "high"}

PriorityValid(v) == v.t = "null" \/ (v.t = "str" /\ v.s \in Priorities)

\* the result returned when the analysis fails
NoIntent(processing_time) ==
    [has_task_intent |-> FALSE, task_name |-> None, due_date |-> None,
     priority |-> None, needs_clarity |-> FALSE,
     processing_time |-> processing_time]

\* GeminiService.analyze_task_intent up to its awaited call: the check of the
\* model handle, HTTPException(503) without one
analyze_task_intent_enter(m) ==
    IF ~m THEN [raised |-> TRUE, status_code |-> 503]
    ELSE [raised |-> FALSE]

\* an analysis that lets the error of a response it cannot use through
analyze_task_intent_raising(outcome, start_time, t1, t2) ==
    IF outcome.raises
    THEN [raised |-> FALSE, ret |-> NoIntent(t2 - start_time)]
    ELSE LET intent_data == json_loads(strip(outcome.text))
         IN  IF ~intent_data.ok
             THEN [raised |-> FALSE, ret |-> NoIntent(t1 - start_time)]
             ELSE [raised |-> TRUE, status_code |-> 500]

\* an analysis that reads needsClarity from the key hasTaskIntent
analyze_task_intent_one_key(outcome, start_time, t1, t2) ==
    IF outcome.raises
    THEN [raised |-> FALSE, ret |-> NoIntent(t2 - start_time)]
    ELSE LET intent_data == json_loads(strip(outcome.text))
         IN  IF ~intent_data.ok
             THEN [raised |-> FALSE, ret |-> NoIntent(t1 - start_time)]
             ELSE IF intent_data.value.t # "dict"
             THEN [raised |-> FALSE, ret |-> NoIntent(t2 - start_time)]
             ELSE LET d == intent_data.value.members
                      has_task_intent == get(d, "hasTaskIntent", JBool(FALSE))
                      task_name == get(d, "taskName", JNull)
                      due_date == get(d, "dueDate", JNull)
                      priority == get(d, "priority", JNull)
                      needs_clarity == get(d, "hasTaskIntent", JBool(FALSE))
                  IN  IF /\ BoolValid(has_task_intent)
                         /\ OptionalStrValid(task_name)
                         /\ OptionalStrValid(due_date)
                         /\ PriorityValid(priority)
                         /\ BoolValid(needs_clarity)
                      THEN [raised |-> FALSE,
                            ret |-> [has_task_intent |-> BoolOf(has_task_intent),
                                     task_name |-> OptionalStrOf(task_name),
                                     due_date |-> OptionalStrOf(due_date),
                                     priority |-> OptionalStrOf(priority),
                                     needs_clarity |-> BoolOf(needs_clarity),
                                     processing_time |-> t1 - start_time]]
                      ELSE [raised |-> FALSE,
                            ret |-> NoIntent(t2 - start_time)]

\* GeminiService.analyze_task_intent from the return of its awaited call
\* on.  start_time, t1 and t2 are the readings of time.time() before the
\* call, after it and in the outer handler.  A response that is not JSON is the JSONDecodeError of the
\* inner handler; one that is no object (AttributeError of .get) or whose
\* values do not validate (ValidationError) reaches the outer handler.
analyze_task_intent(outcome, start_time, t1, t2) ==
    IF outcome.raises
    THEN [raised |-> FALSE, ret |-> NoIntent(t2 - start_time)]
    ELSE LET intent_data == json_loads(strip(outcome.text))
         IN  IF ~intent_data.ok
             THEN [raised |-> FALSE, ret |-> NoIntent(t1 - start_time)]
             ELSE IF intent_data.value.t # "dict"
             THEN [raised |-> FALSE, ret |-> NoIntent(t2 - start_time)]
             ELSE LET d == intent_data.value.members
                      has_task_intent == get(d, "hasTaskIntent", JBool(FALSE))
                      task_name == get(d, "taskName", JNull)
                      due_date == get(d, "dueDate", JNull)
                      priority == get(d, "priority", JNull)
                      needs_clarity == get(d, "needsClarity", JBool(FALSE))
                  IN  IF /\ BoolValid(has_task_intent)
                         /\ OptionalStrValid(task_name)
                         /\ OptionalStrValid(due_date)
                         /\ PriorityValid(priority)
                         /\ BoolValid(needs_clarity)
                      THEN [raised |-> FALSE,
                            ret |-> [has_task_intent |-> BoolOf(has_task_intent),
                                     task_name |-> OptionalStrOf(task_name),
                                     due_date |-> OptionalStrOf(due_date),
                                     priority |-> OptionalStrOf(priority),
                                     needs_clarity |-> BoolOf(needs_clarity),
                                     processing_time |-> t1 - start_time]]
                      ELSE [raised |-> FALSE,
                            ret |-> NoIntent(t2 - start_time)]

\* The responses of the external model to the extraction prompt.  An object
\* is given by what it holds under each key (None: the key is absent) and is
\* written with its keys in the order of the prompt.
IntentKeys == <<"hasTaskIntent", "taskName", "dueDate", "priority",
                "needsClarity", "note">>

ObjectChoices ==
    [hasTaskIntent : {None, Some(JBool(TRUE)), Some(JBool(FALSE)),
                      Some(JNull), Some(JStr("maybe")), Some(JStr("Yes"))},
     taskName : {None, Some(JNull), Some(JStr("call the dentist")),
                 Some(JNum(5)), Some(JList(<<>>))},
     dueDate : {None, Some(JStr("2025-01-01 15:00"))},
     priority : {None, Some(JNull), Some(JStr("high")), Some(JStr("urgent"))},
     needsClarity : {None, Some(JBool(TRUE))},
     note : {None, Some(JStr("maybe"))}]

\* the tokens of a value
RenderValue(v) ==
    CASE v.t = "null" -> <<"null">>
      [] v.t = "bool" -> IF v.b THEN <<"true">> ELSE <<"false">>
      [] v.t = "num" -> <<CHOOSE tok \in Numbers : NumberValue(tok) = v.n>>
      [] v.t = "str" -> <<Quote(v.s)>>
      [] v.t = "list" -> <<"[", "]">>

RECURSIVE RenderMembers(_, _, _)
RenderMembers(choice, i, first) ==
    IF i > Len(IntentKeys) THEN <<>>
    ELSE LET key == IntentKeys[i]
         IN  IF choice[key] = None THEN RenderMembers(choice, i + 1, first)
             ELSE (IF first THEN <<>> ELSE <<",", " ">>)
                  \o <<Quote(key), ":", " ">> \o RenderValue(Val(choice[key]))
                  \o RenderMembers(choice, i + 1, FALSE)

\* how the text of an object is laid out: what stands around it, and what
\* stands inside its braces.  Around it anything str.strip() takes away may
\* stand, inside it only the whitespace of JSON.
Compact == [around |-> <<>>, inside |-> <<>>]
Padded == [around |-> <<" ">>, inside |-> <<>>]
Lines == [around |-> <<"\f", "\r", "\n">>, inside |-> <<"\r", "\n">>]
Layouts == {Compact, Padded, Lines}

RenderObject(choice, layout) ==
    layout.around
    \o <<"{">> \o layout.inside \o RenderMembers(choice, 1, TRUE)
    \o layout.inside \o <<"}">>
    \o layout.around

\* texts that are not JSON
MalformedTexts ==
    {<<>>,
     <<"{">>,
     <<"{", Quote("hasTaskIntent"), ":", " ", "true", ",", "}">>,
     <<"{", Quote("hasTaskIntent"), " ", "true", "}">>,
     <<"{", "hasTaskIntent", ":", " ", "true", "}">>,
     <<"Here", "{", Quote("hasTaskIntent"), ":", " ", "true", "}">>,
     <<"{", Quote("hasTaskIntent"), ":", " ", "true", "}", " ", "{", "}">>,
     <<"[", "1">>,
     <<"[", "1", ",", "]">>,
     <<"{", "\f", "}">>,
     <<"[", "1", ",", "", "5", "]">>}

\* texts that are JSON, but no object
NonObjectTexts ==
    {<<"null">>, <<"true">>, <<"5">>, <<Quote("yes")>>, <<"[", "]">>,
     <<" ", "[", "{", "}", ",", " ", "1", "]">>,
     <<"\r", "null">>, <<"[", "1", ",", "\r", "5", "]">>}

\* what the external call is made to do in one analysis
ResponseChoices ==
    {[kind |-> "raises"]}
    \cup {[kind |-> "object", members |-> c, layout |-> l] :
            c \in ObjectChoices, l \in Layouts}
    \cup {[kind |-> "malformed", text |-> t] : t \in MalformedTexts}
    \cup {[kind |-> "non_object", text |-> t] : t \in NonObjectTexts}

OutcomeOf(choice) ==
    IF choice.kind = "raises" THEN Raises
    ELSE IF choice.kind = "object"
    THEN Returns(RenderObject(choice.members, choice.layout))
    ELSE Returns(choice.text)

\* the service as built, and one analysis about to be made
InitIntent ==
    /\ conversations = EmptyDict
    /\ session_metadata = EmptyDict
    /\ clock = 0
    /\ last \in {[op |-> "request", response |-> c] : c \in ResponseChoices}
    /\ appended = EmptyDict
    /\ model = TRUE
    /\ reqs = [r \in Requests |-> [pc |-> "idle"]]
    /\ turns = EmptyDict
    /\ mixed = {}
    /\ begun = 0
    /\ process = "serving"
    /\ services = [rag_service |-> TRUE, gemini_service |-> TRUE,
                   conversation_service |-> TRUE]
    /\ documents = default_docs

\* GeminiService.analyze_task_intent up to the awaited external call: the
\* check of the handle, the reading of start_time, the prompt and the call
\* of generate_content_async, at which the coroutine is suspended
AnalyzeTaskIntentBegin(r) ==
    /\ last.op = "request"
    /\ reqs[r].pc = "idle"
    /\ LET e == analyze_task_intent_enter(model)
       IN  IF e.raised
           THEN /\ last' = [op |-> "analyze_task_intent",
                            response |-> last.response, result |-> e]
                /\ UNCHANGED reqs
           ELSE /\ last' = [op |-> "generate_content_async",
                            awaiting |-> TRUE]
                /\ reqs' = [reqs EXCEPT ![r] =
                              [pc |-> "analyzing",
                               response |-> last.response,
                               start_time |-> clock]]
    /\ UNCHANGED <<conversations, session_metadata, clock, appended,
                   serverVars, turns, mixed, begun>>

\* GeminiService.analyze_task_intent from the return of the external call
\* on: the text stripped and parsed, the result made
AnalyzeTaskIntentComplete(r) ==
    /\ reqs[r].pc = "analyzing"
    /\ \E t1 \in Readings(clock, clock) : \E t2 \in Readings(clock, t1) :
         LET res == analyze_task_intent(OutcomeOf(reqs[r].response),
                                        reqs[r].start_time, t1, t2)
         IN  /\ last' = [op |-> "analyze_task_intent",
                         response |-> reqs[r].response, result |-> res]
             /\ clock' = t2
    /\ reqs' = [reqs EXCEPT ![r] = [pc |-> "idle"]]
    /\ UNCHANGED <<conversations, session_metadata, appended, serverVars,
                   turns, mixed, begun>>

\* One analysis; while its external call is awaited the clock goes on
NextIntent ==
    \/ \E r \in Requests : AnalyzeTaskIntentBegin(r)
    \/ \E r \in Requests : AnalyzeTaskIntentComplete(r)
    \/ Tick

SpecIntent == InitIntent /\ [][NextIntent]_vars

-----------------------------------------------------------------------------
(* The server: its startup, GET /health, and the routes once it serves *)

\* Settings.google_gemini_api_key: os.getenv("GOOGLE_GEMINI_API_KEY")
ApiKeys == {None, Some(""), Some("key")}

\* an _initialize_model that logs the failure and goes on without a model
initialize_model_degraded(api_key, constructs) ==
    IF api_key = None \/ Val(api_key) = "" THEN [model |-> FALSE, raised |-> FALSE]
    ELSE IF ~constructs THEN [model |-> FALSE, raised |-> FALSE]
    ELSE [model |-> TRUE, raised |-> FALSE]

\* GeminiService._initialize_model: the credential must be set and
\* genai.GenerativeModel must construct; every failure is logged and raised
\* again.  `constructs` says whether configure and GenerativeModel succeed.
initialize_model(api_key, constructs) ==
    IF api_key = None \/ Val(api_key) = "" THEN [model |-> FALSE, raised |-> TRUE]
    ELSE IF ~constructs THEN [model |-> FALSE, raised |-> TRUE]
    ELSE [model |-> TRUE, raised |-> FALSE]

\* GeminiService.is_healthy
is_healthy(m) == m

\* initialize_services: the globals are assigned in the order rag_service,
\* gemini_service, conversation_service; GeminiService(...) raising leaves
\* the last two unassigned
initialize_services(svc, api_key, constructs) ==
    LET rag == [svc EXCEPT !.rag_service = TRUE]
        g == initialize_model(api_key, constructs)
    IN  IF g.raised
        THEN [services |-> rag, documents |-> default_docs,
              model |-> FALSE, raised |-> TRUE]
        ELSE [services |-> [rag EXCEPT !.gemini_service = TRUE,
                                       !.conversation_service = TRUE],
              documents |-> default_docs,
              model |-> g.model, raised |-> FALSE]

\* the state of the process before its lifespan has run
InitServer ==
    /\ conversations = EmptyDict
    /\ session_metadata = EmptyDict
    /\ clock = 0
    /\ last = [op |-> "init"]
    /\ appended = EmptyDict
    /\ model = FALSE
    /\ reqs = [r \in Requests |-> [pc |-> "idle"]]
    /\ turns = EmptyDict
    /\ mixed = {}
    /\ begun = 0
    /\ process = "starting"
    /\ services = [rag_service |-> FALSE, gemini_service |-> FALSE,
                   conversation_service |-> FALSE]
    /\ documents = <<>>

\* main.lifespan: initialize_services, and the failure raised again, which
\* ends the process before it serves a request
Startup(api_key, constructs) ==
    LET i == initialize_services(services, api_key, constructs)
    IN  /\ process = "starting"
        /\ services' = i.services
        /\ documents' = i.documents
        /\ model' = i.model
        /\ process' = IF i.raised THEN "exited" ELSE "serving"
        /\ last' = [op |-> "startup", api_key |-> api_key,
                    constructs |-> constructs, raised |-> i.raised]
        /\ UNCHANGED <<conversations, session_metadata, clock, appended,
                       reqs, turns, mixed, begun>>

\* GET /health, behind the dependency get_gemini_service
HealthCheck ==
    /\ process = "serving"
    /\ last' = IF ~services.gemini_service
               THEN [op |-> "health_check", status |-> 503]
               ELSE [op |-> "health_check", status |-> 200,
                     body |-> [status |-> IF is_healthy(model)
                                          THEN "healthy" ELSE "degraded",
                               api_connected |-> is_healthy(model)]]
    /\ UNCHANGED <<conversations, session_metadata, clock, appended, apiVars>>

\* the responses of the external model the route is followed with
RouteResponses ==
    {[kind |-> "raises"],
     [kind |-> "malformed", text |-> <<"{">>],
     [kind |-> "object", layout |-> Lines,
      members |-> [hasTaskIntent |-> Some(JBool(TRUE)),
                   taskName |-> Some(JStr("call the dentist")),
                   dueDate |-> None, priority |-> Some(JStr("high")),
                   needsClarity |-> None, note |-> None]]}

\* a route that also records the message in the session "s1"
AnalyzeTaskIntentRouteBegin_recording(r, content) ==
    LET a == add_message(conversations, session_metadata, "s1", "user",
                         content, None, clock, clock, clock, clock)
    IN  /\ process = "serving"
        /\ reqs[r].pc = "idle"
        /\ TotalMsgs(conversations) < MaxMsgs
        /\ conversations' = a.conversations
        /\ session_metadata' = a.session_metadata
        /\ last' = [op |-> "analyze_task_intent_route", content |-> content,
                    status |-> 200]
        /\ UNCHANGED <<clock, appended, apiVars>>

\* POST /analyze-task-intent up to the awaited external call, behind the
\* dependency get_gemini_service and the validation of the body: 400 for
\* blank content, else GeminiService.analyze_task_intent is entered, its
\* HTTPException raised again
AnalyzeTaskIntentRouteBegin(r, content) ==
    /\ process = "serving"
    /\ reqs[r].pc = "idle"
    /\ IF ~services.gemini_service
       THEN /\ last' = [op |-> "analyze_task_intent_route",
                        content |-> content, status |-> 503]
            /\ UNCHANGED reqs
       ELSE IF ~ContentValid(content)
       THEN /\ last' = [op |-> "analyze_task_intent_route",
                        content |-> content, status |-> 422]
            /\ UNCHANGED reqs
       ELSE IF strip(content) = <<>>
       THEN /\ last' = [op |-> "analyze_task_intent_route",
                        content |-> content, status |-> 400]
            /\ UNCHANGED reqs
       ELSE LET e == analyze_task_intent_enter(model)
            IN  IF e.raised
                THEN /\ last' = [op |-> "analyze_task_intent_route",
                                 content |-> content,
                                 status |-> e.status_code]
                     /\ UNCHANGED reqs
                ELSE /\ last' = [op |-> "analyze_task_intent_route",
                                 content |-> content, awaiting |-> TRUE]
                     /\ reqs' = [reqs EXCEPT ![r] =
                                   [pc |-> "analyzing", content |-> content,
                                    start_time |-> clock]]
    /\ UNCHANGED <<conversations, session_metadata, clock, appended,
                   serverVars, turns, mixed, begun>>

\* POST /analyze-task-intent from the return of the external call on: the
\* result of GeminiService.analyze_task_intent is the body of the answer
AnalyzeTaskIntentRouteComplete(r, response) ==
    /\ reqs[r].pc = "analyzing"
    /\ LET res == analyze_task_intent(OutcomeOf(response),
                                      reqs[r].start_time, clock, clock)
       IN  last' = IF res.raised
                   THEN [op |-> "analyze_task_intent_route",
                         content |-> reqs[r].content,
                         status |-> res.status_code]
                   ELSE [op |-> "analyze_task_intent_route",
                         content |-> reqs[r].content, status |-> 200,
                         body |-> res.ret]
    /\ reqs' = [reqs EXCEPT ![r] = [pc |-> "idle"]]
    /\ UNCHANGED <<conversations, session_metadata, clock, appended,
                   serverVars, turns, mixed, begun>>

\* The server from the start of the process on
NextServer ==
    \/ \E api_key \in ApiKeys, constructs \in BOOLEAN :
         Startup(api_key, constructs)
    \/ HealthCheck
    \/ \E r \in Requests, kind \in Kinds,
          content \in {<<>>, BlankContent, <<"a">>},
          request_session_id \in {None, Some("s1")} :
         AskBegin(r, kind, content, request_session_id)
    \/ \E r \in Requests, outcome \in Outcomes : AskComplete(r, outcome)
    \/ ClearConversation("s1")
    \/ \E r \in Requests, content \in {<<>>, BlankContent, <<"a">>} :
         AnalyzeTaskIntentRouteBegin(r, content)
    \/ \E r \in Requests, response \in RouteResponses :
         AnalyzeTaskIntentRouteComplete(r, response)

SpecServer == InitServer /\ [][NextServer]_vars

-----------------------------------------------------------------------------
(* The Knowledge Store and the Retrieval Engine: SimpleRAGService *)
(*                                                                         *)
(* A score is a float: a double of IEEE 754, every operation on it rounded *)
(* to the nearest double, to the even one of two that are equally near.    *)
(* A double is kept as the exact number it is, written in digits of base   *)
(* 2^15, two digits before the point and six after it.  These digits hold  *)
(* every double from 2^-38 to 2^30, which covers the scores of queries of  *)
(* fewer than 2^15 words.  min_score is given in tenths.                   *)

MaxDocs == 2
MaxCorpusDocs == 4
MaxSearchLimit == 2

IntegerDigits == 2
FractionDigits == 6
NumDigits == IntegerDigits + FractionDigits

\* the bits a double has for its significand
Precision == 53

\* the digits f[1] to f[n], in a tuple
RECURSIVE DigitsOf(_, _)
DigitsOf(f, n) == IF n = 0 THEN <<>> ELSE Append(DigitsOf(f, n - 1), f[n])

\* bit i of a number, bit 0 being the lowest bit of its last digit
BitAt(x, i) ==
    (x[NumDigits - (i \div BitsPerDigit)] \div Pow2(i % BitsPerDigit)) % 2

\* the number of bits from the highest bit set down to bit 0
BitLength(x) ==
    LET set == {i \in 1..NumDigits : x[i] # 0}
    IN  IF set = {} THEN 0
        ELSE LET first == CHOOSE i \in set : \A j \in set : i <= j
                 k == CHOOSE n \in 1..BitsPerDigit :
                          Pow2(n - 1) <= x[first] /\ x[first] < Pow2(n)
             IN  BitsPerDigit * (NumDigits - first) + k

\* the digits 1 to i of x + y + carry, the carry added at digit i
RECURSIVE SumFrom(_, _, _, _)
SumFrom(x, y, i, carry) ==
    IF i = 0 THEN <<>>
    ELSE LET t == x[i] + y[i] + carry
         IN  Append(SumFrom(x, y, i - 1, t \div Base), t % Base)

\* x + y, exactly
ExactSum(x, y) == SumFrom(x, y, NumDigits, 0)

\* the digits 1 to i of x * n + carry, the carry added at digit i
RECURSIVE ProductFrom(_, _, _, _)
ProductFrom(x, n, i, carry) ==
    IF i = 0 THEN <<>>
    ELSE LET t == x[i] * n + carry
         IN  Append(ProductFrom(x, n, i - 1, t \div Base), t % Base)

\* x * n for a whole number n below the base, exactly
ExactProduct(x, n) == ProductFrom(x, n, NumDigits, 0)

\* the next k digits of a quotient by b of which rem is left
RECURSIVE QuotientFrom(_, _, _)
QuotientFrom(rem, b, k) ==
    IF k = 0 THEN <<>>
    ELSE <<(rem * Base) \div b>> \o QuotientFrom((rem * Base) % b, b, k - 1)

\* what is left of a after k digits of a / b behind the point
RECURSIVE Remainder(_, _, _)
Remainder(a, b, k) ==
    IF k = 0 THEN a % b ELSE (Remainder(a, b, k - 1) * Base) % b

\* a / b for whole numbers a >= 0 and 0 < b < 2^15, cut after the last
\* digit, and whether the cut took nothing away
ExactQuotient(a, b) ==
    [digits |-> <<(a \div b) \div Base, (a \div b) % Base>>
                \o QuotientFrom(a % b, b, FractionDigits),
     exact |-> Remainder(a, b, FractionDigits) = 0]

\* x with the bits below bit s cleared
ClearBelow(x, s) ==
    DigitsOf([i \in 1..NumDigits |->
                LET lowest == BitsPerDigit * (NumDigits - i)
                IN  IF s >= lowest + BitsPerDigit THEN 0
                    ELSE IF s <= lowest THEN x[i]
                    ELSE x[i] - (x[i] % Pow2(s - lowest))],
             NumDigits)

\* the number whose only bit is bit s
BitAlone(s) ==
    DigitsOf([i \in 1..NumDigits |->
                IF i = NumDigits - (s \div BitsPerDigit)
                THEN Pow2(s % BitsPerDigit) ELSE 0],
             NumDigits)

\* the double nearest to a number, of two equally near the one whose last
\* bit is 0; `exact` says that x is the number itself and not the number
\* cut after the last digit
RoundToDouble(x, exact) ==
    LET s == BitLength(x) - Precision
    IN  IF s <= 0 THEN x
        ELSE LET half == BitAt(x, s - 1) = 1
                 more == ~exact \/ ClearBelow(x, s - 1) # x
                 odd == BitAt(x, s) = 1
                 down == ClearBelow(x, s)
             IN  IF half /\ (more \/ odd) THEN ExactSum(down, BitAlone(s))
                 ELSE down

\* the float a / b of two ints (true division), also the float a literal
\* of a tenths stands for
FloatOf(a, b) ==
    LET q == ExactQuotient(a, b) IN RoundToDouble(q.digits, q.exact)

\* x + y of two floats
FloatSum(x, y) == RoundToDouble(ExactSum(x, y), TRUE)

\* n * x of an int and a float
FloatProduct(n, x) == RoundToDouble(ExactProduct(x, n), TRUE)

\* the literals 0.3 and 0.1 of search
PhraseBoost == FloatOf(3, 10)
MetadataBoost == FloatOf(1, 10)

\* The words of " ".join(str(v) for v in doc.metadata.values()).lower():
\* the words of every value.  The space that joins two values parts their
\* words and, being neither cased nor case-ignorable, parts what decides
\* the lower case of a capital sigma.
MetadataWords(metadata) ==
    UNION {Words(lower(str(metadata[k]))) : k \in DOMAIN metadata}

\* score = len(common_words) / len(query_words) if query_words else 0
WordOverlap(query_words, content_words) ==
    IF query_words # {}
    THEN FloatOf(Cardinality(query_words \cap content_words),
                 Cardinality(query_words))
    ELSE FloatOf(0, 1)

\* if query_lower in content_lower: score += 0.3
WithPhraseBoost(score, content_lower, query_lower) ==
    IF Contains(content_lower, query_lower)
    THEN FloatSum(score, PhraseBoost)
    ELSE score

\* if doc.metadata: score += len(metadata_common) * 0.1
WithMetadataBoost(score, metadata, query_words) ==
    IF DOMAIN metadata # {}
    THEN FloatSum(score,
                  FloatProduct(Cardinality(query_words
                                           \cap MetadataWords(metadata)),
                               MetadataBoost))
    ELSE score

\* the score of a content, given in lower case, before the metadata are
\* looked at
ContentScore(content_lower, query_lower, query_words) ==
    WithPhraseBoost(WordOverlap(query_words, Words(content_lower)),
                    content_lower, query_lower)

\* a score that counts the words of the metadata only
Score_metadata_only(doc, query_lower, query_words) ==
    WithMetadataBoost(FloatOf(0, 1), doc.metadata, query_words)

\* the score search gives a document: the share of the query's words that
\* are words of the content, 0.3 more when the content contains the query,
\* and 0.1 more for every query word among the words of the metadata
Score(doc, query_lower, query_words) ==
    WithMetadataBoost(ContentScore(lower(doc.content), query_lower,
                                   query_words),
                      doc.metadata, query_words)

\* a > b, for two scores
Higher(a, b) ==
    \E i \in 1..NumDigits :
        /\ a[i] > b[i]
        /\ \A j \in 1..(i - 1) : a[j] = b[j]

\* a test every score passes
AtLeast_always(score, min_score) == TRUE

\* score >= min_score, min_score in tenths
AtLeast(score, min_score) ==
    LET m == FloatOf(min_score, 10) IN score = m \/ Higher(score, m)

\* results.sort(key=lambda x: x[1], reverse=True): descending, results of
\* equal score staying in the order they were found
RECURSIVE sort_descending(_)
sort_descending(results) ==
    IF results = <<>> THEN <<>>
    ELSE LET sorted == sort_descending(SubSeq(results, 1, Len(results) - 1))
             x == results[Len(results)]
             before == {i \in 1..Len(sorted) : ~Higher(x.score, sorted[i].score)}
             k == Cardinality(before)
         IN  SubSeq(sorted, 1, k) \o <<x>> \o SubSeq(sorted, k + 1, Len(sorted))

\* seq[:stop]
PySliceTo(seq, stop) ==
    IF stop >= 0 THEN SubSeq(seq, 1, Min(stop, Len(seq)))
    ELSE SubSeq(seq, 1, Max(0, Len(seq) + stop))

\* if score >= min_score: results.append((doc, score)); a document is
\* named by its place in the store
Kept(i, score, min_score) ==
    IF AtLeast(score, min_score) THEN <<[doc |-> i, score |-> score]>>
    ELSE <<>>

\* the (document, score) pairs of the documents that reach min_score, in
\* the order of the store
RECURSIVE Candidates(_, _, _, _, _)
Candidates(docs, i, query_lower, query_words, min_score) ==
    IF i > Len(docs) THEN <<>>
    ELSE Kept(i, Score(docs[i], query_lower, query_words), min_score)
         \o Candidates(docs, i + 1, query_lower, query_words, min_score)

\* a search that hands back the candidates in the order of the store
search_unsorted(docs, query, limit, min_score) ==
    IF \A i \in 1..Len(query) : query[i] \in WhitespaceCodes THEN <<>>
    ELSE PySliceTo(Candidates(docs, 1, lower(query), Words(lower(query)),
                              min_score), limit)

\* search from query_lower on: the candidates sorted, and cut at limit
search_lowered(docs, query_lower, limit, min_score) ==
    PySliceTo(sort_descending(Candidates(docs, 1, query_lower,
                                         Words(query_lower), min_score)),
              limit)

\* SimpleRAGService.search; `not query.strip()` is that every character of
\* the query is whitespace
search(docs, query, limit, min_score) ==
    IF \A i \in 1..Len(query) : query[i] \in WhitespaceCodes THEN <<>>
    ELSE search_lowered(docs, lower(query), limit, min_score)

\* the defaults of search and get_context_for_query
DefaultMinScore == 1
ContextLimit == 3
DefaultMaxContextLength == 1000

\* the bullet of a line, as the source file spells it: U+00E2, U+20AC,
\* U+00A2 and a space
Bullet == <<226, 8364, 162, 32>>
Header == Text("RELEVANT CONTEXT:") \o <<10>>

\* a loop that cuts the line that does not fit any more
RECURSIVE context_parts_cut(_, _, _, _, _)
context_parts_cut(docs, relevant_docs, i, current_length, max_context_length) ==
    IF i > Len(relevant_docs) THEN <<>>
    ELSE LET doc_context == Bullet \o docs[relevant_docs[i].doc].content
         IN  IF current_length + Len(doc_context) > max_context_length
             THEN IF max_context_length - current_length > 0
                  THEN <<SubSeq(doc_context, 1,
                                max_context_length - current_length)>>
                  ELSE <<>>
             ELSE <<doc_context>>
                  \o context_parts_cut(docs, relevant_docs, i + 1,
                                       current_length + Len(doc_context),
                                       max_context_length)

\* the loop of get_context_for_query: the lines, as long as the next one
\* keeps the running length within max_context_length
RECURSIVE context_parts(_, _, _, _, _)
context_parts(docs, relevant_docs, i, current_length, max_context_length) ==
    IF i > Len(relevant_docs) THEN <<>>
    ELSE LET doc_context == Bullet \o docs[relevant_docs[i].doc].content
         IN  IF current_length + Len(doc_context) > max_context_length
             THEN <<>>
             ELSE <<doc_context>>
                  \o context_parts(docs, relevant_docs, i + 1,
                                   current_length + Len(doc_context),
                                   max_context_length)

\* the block made of the lines, the empty string when there is none
context_block(parts) ==
    IF parts # <<>> THEN Header \o join(<<10>>, parts) \o <<10, 10>>
    ELSE <<>>

\* get_context_for_query from relevant_docs on
context_of(docs, relevant_docs, max_context_length) ==
    IF relevant_docs = <<>> THEN <<>>
    ELSE context_block(context_parts(docs, relevant_docs, 1, 0,
                                     max_context_length))

\* SimpleRAGService.get_context_for_query
get_context_for_query(docs, query, max_context_length) ==
    context_of(docs, search(docs, query, ContextLimit, DefaultMinScore),
               max_context_length)

\* The documents the corpora are made of.  The sixth spells its content
\* in Greek capitals, "a way" and a sigma alone, of which the first ends in
\* the final sigma when lowered; its metadata value is an int.  The seventh
\* has a list for its metadata value, of a str and the float 0.5.
DocPool == <<
    [content |-> Text("xa bx"), metadata |-> EmptyDict],
    [content |-> Text("A b"), metadata |-> EmptyDict],
    [content |-> Text("a"), metadata |-> [category |-> JStr(Text("a"))]],
    [content |-> Text("A b"), metadata |-> [category |-> JStr(Text("a"))]],
    [content |-> Text("c"), metadata |-> [category |-> JStr(Text("a"))]],
    [content |-> <<927, 916, 927, 931, 32, 931>>,
     metadata |-> [level |-> JNum(5)]],
    [content |-> Text("c"),
     metadata |-> [tags |-> JList(<<JStr(Text("a")),
                                    JFloat(0, 1022, <<0, 0, 0, 0>>)>>)]]>>

\* the documents of the pool at the places of a set, in the order of the
\* pool
Picked(places) ==
    [i \in 1..Cardinality(places) |->
        DocPool[CHOOSE p \in places :
                    Cardinality({q \in places : q < p}) = i - 1]]

Reversed(seq) == [i \in 1..Len(seq) |-> seq[Len(seq) + 1 - i]]

\* the corpora: up to n documents of the pool, in the order of the pool or
\* in the reverse order
Corpora(n) ==
    UNION {{Picked(places), Reversed(Picked(places))} :
              places \in {x \in SUBSET DOMAIN DocPool : Cardinality(x) <= n}}

\* the queries: one of whitespace only (a space and an em space), and the
\* last a small sigma and the digit 5
Queries == {<<32, 8195>>, Text("a"), Text("a b"), Text("B a"),
            <<963, 32, 53>>}
MinScores == {0, DefaultMinScore, 4, 13}
ContextLengths == {0, 5, 12, 14, DefaultMaxContextLength}

RagRequests ==
    [call : {"search"}, query : Queries, limit : 0..MaxSearchLimit,
     min_score : MinScores]
    \cup [call : {"get_context_for_query"}, query : Queries,
          max_context_length : ContextLengths]

\* the service as built from a knowledge-base file holding some corpus, and
\* one call about to be made
InitRag ==
    /\ conversations = EmptyDict
    /\ session_metadata = EmptyDict
    /\ clock = 0
    /\ last \in {[op |-> "request", request |-> q] : q \in RagRequests}
    /\ appended = EmptyDict
    /\ model = TRUE
    /\ reqs = [r \in Requests |-> [pc |-> "idle"]]
    /\ turns = EmptyDict
    /\ mixed = {}
    /\ begun = 0
    /\ process = "serving"
    /\ services = [rag_service |-> TRUE, gemini_service |-> TRUE,
                   conversation_service |-> TRUE]
    /\ documents \in Corpora(MaxCorpusDocs)

Search ==
    /\ last.op = "request"
    /\ last.request.call = "search"
    /\ last' = [op |-> "search", request |-> last.request,
                ret |-> search(documents, last.request.query,
                               last.request.limit, last.request.min_score)]
    /\ UNCHANGED <<conversations, session_metadata, clock, appended, apiVars>>

GetContextForQuery ==
    /\ last.op = "request"
    /\ last.request.call = "get_context_for_query"
    /\ last' = [op |-> "get_context_for_query", request |-> last.request,
                ret |-> get_context_for_query(documents, last.request.query,
                           last.request.max_context_length)]
    /\ UNCHANGED <<conversations, session_metadata, clock, appended, apiVars>>

NextRag ==
    \/ Search
    \/ GetContextForQuery

SpecRag == InitRag /\ [][NextRag]_vars

-----------------------------------------------------------------------------
(* The Knowledge Store: Document, and how SimpleRAGService is built and    *)
(* grown                                                                   *)
(*                                                                         *)
(* The id of a document keeps the whole seconds of its creation time, so   *)
(* for the Knowledge Store the clock is counted in parts of a second,      *)
(* TicksPerSecond of them to the second.                                   *)

TicksPerSecond == 2

\* hashlib.md5(content.encode()).hexdigest()[:8], for the contents that the
\* model stores: the six seed documents and the contents of StoreContents
content_hash(content) ==
    CASE content = <<>> -> "d41d8cd9"
      [] content = Text("a") -> "0cc175b9"
      [] content = Text("b") -> "92eb5ffe"
      [] content = default_docs[1].content -> "99b26eb8"
      [] content = default_docs[2].content -> "82a99a8c"
      [] content = default_docs[3].content -> "06a11544"
      [] content = default_docs[4].content -> "23783b9f"
      [] content = default_docs[5].content -> "7496c88e"
      [] content = default_docs[6].content -> "b5ea106c"

\* int(created_at.timestamp())
timestamp_seconds(created_at) == created_at \div TicksPerSecond

\* Document._generate_id
generate_id(content, created_at) ==
    "doc_" \o content_hash(content) \o "_"
           \o ToString(timestamp_seconds(created_at))

\* Document(content, metadata), made when the clock reads `now`
Document(content, metadata, now) ==
    [content |-> content,
     metadata |-> IF metadata = None THEN EmptyDict ELSE Val(metadata),
     created_at |-> now,
     id |-> generate_id(content, now)]

\* SimpleRAGService._initialize_default_knowledge; times[i] is the reading
\* of the clock made for the i-th document
initialize_default_knowledge(docs, times) ==
    docs \o [i \in 1..Len(default_docs) |->
                Document(default_docs[i].content,
                         Some(default_docs[i].metadata), times[i])]

\* SimpleRAGService._load_knowledge_base.  file.raises: open() or
\* json.load() raises; file.data: the value json.load() returns.  Documents
\* are appended one by one, and whatever raises inside the try leaves the
\* ones appended so far and goes on to the default knowledge.
load_knowledge_base(docs, file, times) ==
    IF file.raises \/ file.data.t # "dict"
    THEN initialize_default_knowledge(docs, times)
    ELSE LET entries == get(file.data.members, "documents", <<>>)
             bad == {i \in 1..Len(entries) : "content" \notin DOMAIN entries[i]}
             stop == IF bad = {} THEN Len(entries) + 1
                     ELSE CHOOSE i \in bad : \A j \in bad : i <= j
             loaded == [i \in 1..(stop - 1) |->
                          Document(entries[i]["content"],
                                   Some(get(entries[i], "metadata", EmptyDict)),
                                   times[i])]
         IN  IF bad = {} THEN docs \o loaded
             ELSE initialize_default_knowledge(docs \o loaded,
                      SubSeq(times, stop, Len(times)))

\* SimpleRAGService.__init__; exists: what os.path.exists(path) answers
init_documents(knowledge_base_path, exists, file, times) ==
    IF knowledge_base_path # None /\ Val(knowledge_base_path) # "" /\ exists
    THEN load_knowledge_base(<<>>, file, times)
    ELSE initialize_default_knowledge(<<>>, times)

\* SimpleRAGService.add_document, made when the clock reads `now`
add_document(docs, content, metadata, now) ==
    LET doc == Document(content, metadata, now)
    IN  [documents |-> Append(docs, doc), ret |-> doc.id, raised |-> FALSE]

\* the knowledge-base files, the contents and the metadata of the model
StoreContents == {<<>>, Text("a"), Text("b")}
StoreMetadatas == {None, Some([category |-> JStr(Text("a"))])}
Entries == {[content |-> Text("a")],
            [content |-> Text("a"),
             metadata |-> [category |-> JStr(Text("a"))]],
            EmptyDict}

RECURSIVE EntryLists(_)
EntryLists(n) ==
    IF n = 0 THEN {<<>>}
    ELSE EntryLists(n - 1)
         \cup {Append(c, e) : c \in {x \in EntryLists(n - 1) : Len(x) = n - 1},
                              e \in Entries}

NoFile == [raises |-> TRUE, data |-> JNull]
Files == {NoFile}
         \cup {[raises |-> FALSE, data |-> d] :
                  d \in {JList(<<>>), JDict(EmptyDict)}
                        \cup {JDict([documents |-> e]) :
                                 e \in EntryLists(MaxDocs)}}

StoreInputs ==
    {[knowledge_base_path |-> p, exists |-> FALSE, file |-> NoFile] :
        p \in {None, Some(""), Some("kb.json")}}
    \cup {[knowledge_base_path |-> Some("kb.json"), exists |-> TRUE,
           file |-> f] : f \in Files}

\* the readings of the clock that the making of n documents can see, from
\* the reading `from` on
RECURSIVE ReadingSeqs(_, _)
ReadingSeqs(n, from) ==
    IF n = 0 THEN {<<>>}
    ELSE UNION {{<<t>> \o rest : rest \in ReadingSeqs(n - 1, t)} :
                   t \in Readings(0, from)}

\* the number of documents up to which the model lets the store grow
StoreCap(docs) ==
    IF \E i \in 1..Len(docs) : docs[i].content = default_docs[1].content
    THEN Len(default_docs) + MaxDocs ELSE MaxDocs

\* the service as SimpleRAGService(knowledge_base_path) leaves it
InitStore ==
    \E input \in StoreInputs :
    \E times \in ReadingSeqs(MaxDocs + Len(default_docs), 0) :
        LET docs == init_documents(input.knowledge_base_path, input.exists,
                                   input.file, times)
        IN  /\ conversations = EmptyDict
            /\ session_metadata = EmptyDict
            /\ clock = IF docs = <<>> THEN 0 ELSE docs[Len(docs)].created_at
            /\ last = [op |-> "SimpleRAGService", input |-> input]
            /\ appended = EmptyDict
            /\ model = TRUE
            /\ reqs = [r \in Requests |-> [pc |-> "idle"]]
            /\ turns = EmptyDict
            /\ mixed = {}
            /\ begun = 0
            /\ process = "serving"
            /\ services = [rag_service |-> TRUE, gemini_service |-> TRUE,
                           conversation_service |-> TRUE]
            /\ documents = docs

AddDocument(content, metadata) ==
    LET r == add_document(documents, content, metadata, clock)
    IN  /\ Len(documents) < StoreCap(documents)
        /\ documents' = r.documents
        /\ last' = [op |-> "add_document", content |-> content,
                    before |-> documents, ret |-> r.ret, raised |-> r.raised]
        /\ UNCHANGED <<conversations, session_metadata, clock, appended,
                       model, process, services, reqs, turns, mixed, begun>>

NextStore ==
    \/ \E content \in StoreContents, metadata \in StoreMetadatas :
         AddDocument(content, metadata)
    \/ Tick

SpecStore == InitStore /\ [][NextStore]_vars

-----------------------------------------------------------------------------
(* Properties of the Session Store *)

\* C1: every existing session's message_count equals the length of its
\* stored message sequence, whatever calls were made, failed add_message
\* calls included.
C1_MessageCountIsLength ==
    \A s \in DOMAIN conversations :
        /\ s \in DOMAIN session_metadata
        /\ session_metadata[s].message_count = Len(conversations[s])

\* a failed add_message on a session, while some session holds a message
C1_Witness ==
    /\ last.op = "add_message" /\ last.raised
    /\ last.sid \in DOMAIN conversations
    /\ \E s \in DOMAIN conversations : Len(conversations[s]) >= 1

\* C2: after N successful add_message calls since a session was created,
\* message_count is N and the history without a limit is those N messages
\* in append order; each add_message keeps the stored messages as a prefix
\* and puts the new message last.
C2_HistoryIsTheAppends ==
    /\ [](\A s \in DOMAIN conversations :
            /\ s \in DOMAIN appended
            /\ s \in DOMAIN session_metadata
            /\ session_metadata[s].message_count = Len(appended[s])
            /\ conversations[s] = StoredSeq(appended[s]))
    /\ [](last.op = "get_conversation_history" /\ last.limit = None
          /\ last.sid \in DOMAIN conversations
            => last.ret = StoredSeq(appended[last.sid]))
    /\ [][last'.op = "add_message" /\ ~last'.raised =>
            LET s == last'.sid
                old == IF s \in DOMAIN conversations
                       THEN conversations[s] ELSE <<>>
                new == conversations'[s]
            IN  /\ Len(new) = Len(old) + 1
                /\ SubSeq(new, 1, Len(old)) = old
                /\ new[Len(new)] = Stored(appended'[s][Len(appended'[s])])
         ]_vars

\* the full history of a session of two messages was read
C2_Witness ==
    /\ last.op = "get_conversation_history" /\ last.limit = None
    /\ Len(last.ret) = 2

\* C3 as stated: the messages of a session are in timestamp order, for
\* every add_message call, whether or not the caller supplies a timestamp.
C3_ChronologicalOrder ==
    \A s \in DOMAIN conversations :
        \A i, j \in 1..Len(conversations[s]) :
            i < j => conversations[s][i].timestamp
                        <= conversations[s][j].timestamp

\* C3 as amended: any two messages of a session that were both stamped by
\* the store (the caller supplied no timestamp) are in timestamp order.
C3_StampedChronologicalOrder ==
    \A s \in DOMAIN conversations :
        /\ s \in DOMAIN appended
        /\ Len(appended[s]) = Len(conversations[s])
        /\ \A i, j \in 1..Len(conversations[s]) :
              (i < j /\ ~appended[s][i].supplied /\ ~appended[s][j].supplied)
                => conversations[s][i].timestamp
                      <= conversations[s][j].timestamp

\* two messages stamped by the store at different times
C3_Witness ==
    \E s \in DOMAIN conversations :
        /\ Len(conversations[s]) = 2
        /\ ~appended[s][1].supplied /\ ~appended[s][2].supplied
        /\ conversations[s][1].timestamp < conversations[s][2].timestamp

\* C4: while a session exists its last_activity never decreases, and a
\* successful add_message sets it to the time of that call.
C4_LastActivityMonotonic ==
    [][/\ \A s \in DOMAIN session_metadata \cap DOMAIN session_metadata' :
             session_metadata'[s].last_activity
                >= session_metadata[s].last_activity
       /\ (last'.op = "add_message" /\ ~last'.raised) =>
             /\ session_metadata'[last'.sid].last_activity = last'.time
             /\ clock <= last'.time /\ last'.time <= clock'
      ]_vars

\* a second message was appended later than the session was created
C4_Witness ==
    /\ last.op = "add_message" /\ ~last.raised
    /\ last.sid \in DOMAIN session_metadata
    /\ session_metadata[last.sid].message_count = 2
    /\ session_metadata[last.sid].last_activity
          > session_metadata[last.sid].created_at

\* C5: clear_session returns true exactly when the session existed and then
\* removes its messages and its metadata; on an unknown id it returns
\* false and leaves the store as it was; it never raises, and clearing
\* again changes nothing.
C5_ClearSession ==
    [][last'.op = "clear_session" =>
          LET s == last'.sid
              again == clear_session(conversations', session_metadata', s)
          IN  /\ ~last'.raised
              /\ last'.ret = (s \in DOMAIN conversations)
              /\ get_conversation_history(conversations', s, None) = <<>>
              /\ get_session_info(session_metadata', s) = None
              /\ s \notin DOMAIN conversations'
              /\ s \notin DOMAIN session_metadata'
              /\ (s \notin DOMAIN conversations =>
                    /\ conversations' = conversations
                    /\ session_metadata' = session_metadata)
              /\ \A x \in DOMAIN conversations \ {s} :
                    /\ x \in DOMAIN conversations'
                    /\ conversations'[x] = conversations[x]
                    /\ session_metadata'[x] = session_metadata[x]
              /\ ~again.ret /\ ~again.raised
              /\ again.conversations = conversations'
              /\ again.session_metadata = session_metadata'
      ]_vars

\* a session was cleared while another one stays
C5_Witness ==
    /\ last.op = "clear_session" /\ last.ret
    /\ DOMAIN conversations # {}

\* C6 as stated: with a limit >= 0 given, get_conversation_history returns
\* the most recent min(limit, n) of the n stored messages, in append order;
\* without a limit it returns all n.
C6_LimitIsMostRecent ==
    (last.op = "get_conversation_history"
      /\ last.sid \in DOMAIN conversations) =>
        LET messages == conversations[last.sid]
            n == Len(messages)
        IN  IF last.limit = None THEN last.ret = messages
            ELSE LET k == Min(Val(last.limit), n)
                 IN  last.ret = SubSeq(messages, n - k + 1, n)

\* C7: the two reads answer an unknown session with the empty list and
\* never change the store; get_gemini_history answers an existing session
\* with one record per stored message, in order, holding the message's role
\* and its content as a single text part.
C7_ReadsLeaveTheStore ==
    /\ [][last'.op \in {"get_conversation_history", "get_gemini_history"} =>
            /\ conversations' = conversations
            /\ session_metadata' = session_metadata
            /\ (last'.sid \notin DOMAIN conversations =>
                   /\ last'.ret = <<>>
                   /\ last'.sid \notin DOMAIN conversations'
                   /\ last'.sid \notin DOMAIN session_metadata')
         ]_vars
    /\ [](last.op = "get_gemini_history"
          /\ last.sid \in DOMAIN conversations =>
            LET messages == conversations[last.sid]
            IN  /\ Len(last.ret) = Len(messages)
                /\ \A i \in 1..Len(messages) :
                      /\ last.ret[i].role = messages[i].role
                      /\ last.ret[i].parts
                            = <<[text |-> messages[i].content]>>)

\* the gemini history of a session of two different messages was read
C7_Witness ==
    /\ last.op = "get_gemini_history"
    /\ Len(last.ret) = 2
    /\ last.ret[1] # last.ret[2]

\* the sessions whose last_activity is older than max_age_hours at `time`
OlderThan(meta, time, max_age_hours) ==
    {s \in DOMAIN meta :
        time - meta[s].last_activity > max_age_hours * TicksPerHour}

\* C8: cleanup_old_sessions removes the sessions whose last_activity is
\* older than max_age_hours at the time of the call and no other, leaves
\* the remaining sessions as they were, and returns the number removed.
C8_CleanupRemovesTheOld ==
    [][last'.op = "cleanup_old_sessions" =>
          LET old == OlderThan(session_metadata, last'.time,
                               last'.max_age_hours)
          IN  /\ DOMAIN conversations' = DOMAIN conversations \ old
              /\ DOMAIN session_metadata' = DOMAIN session_metadata \ old
              /\ \A s \in DOMAIN conversations' :
                    /\ conversations'[s] = conversations[s]
                    /\ session_metadata'[s] = session_metadata[s]
              /\ last'.ret = Cardinality(old)
      ]_vars

\* a cleanup with a positive max age removed one session and kept one
C8_Witness ==
    /\ last.op = "cleanup_old_sessions"
    /\ last.max_age_hours > 0
    /\ last.ret = 1
    /\ Cardinality(DOMAIN conversations) = 1

\* C9 as stated: cleanup_old_sessions(0) on a store with at least one
\* session removes every session and returns how many there were.
C9_CleanupZeroRemovesAll ==
    [][(last'.op = "cleanup_old_sessions" /\ last'.max_age_hours = 0
        /\ DOMAIN conversations # {}) =>
          /\ DOMAIN conversations' = {}
          /\ DOMAIN session_metadata' = {}
          /\ last'.ret = Cardinality(DOMAIN conversations)
      ]_vars

\* C9 as amended: cleanup_old_sessions(0) removes the sessions whose
\* last_activity is earlier than the time of the call, keeps the sessions
\* whose last_activity is that very time, and returns the number removed;
\* the store is empty afterwards when every session was active earlier.
C9_CleanupZeroRemovesEarlier ==
    [][(last'.op = "cleanup_old_sessions" /\ last'.max_age_hours = 0
        /\ DOMAIN conversations # {}) =>
          LET earlier == {s \in DOMAIN session_metadata :
                            session_metadata[s].last_activity < last'.time}
          IN  /\ DOMAIN conversations' = DOMAIN conversations \ earlier
              /\ DOMAIN session_metadata' = DOMAIN session_metadata \ earlier
              /\ last'.ret = Cardinality(earlier)
              /\ (earlier = DOMAIN conversations =>
                    DOMAIN conversations' = {})
      ]_vars

\* a cleanup with max age 0 emptied a store of two sessions
C9_Witness ==
    /\ last.op = "cleanup_old_sessions"
    /\ last.max_age_hours = 0
    /\ last.ret = 2
    /\ DOMAIN conversations = {}

-----------------------------------------------------------------------------
(* Properties of the conversational routes *)

\* the response a route has just sent with status 200
Answered(l) == l.op \in Kinds /\ "status" \in DOMAIN l /\ l.status = 200

\* user message 1, assistant reply 1, ..., user message k, assistant reply k
TurnMessages(ts) ==
    [i \in 1..(2 * Len(ts)) |->
        IF i % 2 = 1
        THEN [role |-> "user", content |-> Val(ts[(i + 1) \div 2].content)]
        ELSE [role |-> "assistant", content |-> Val(ts[i \div 2].response)]]

\* the history of every session whose turns were made one after the other
\* is user message 1, assistant reply 1, ..., user message k, assistant
\* reply k, and the reply of the call just answered is the last message of
\* the session its response names
TurnsInOrder ==
    /\ \A s \in ApiSessionIds :
          (s \notin mixed /\ InFlight(s) = {}) =>
              LET h == get_conversation_history(conversations, s, None)
                  expected == TurnMessages(TurnsOf(s))
              IN  /\ Len(h) = 2 * Len(TurnsOf(s))
                  /\ \A i \in 1..Len(h) :
                        /\ h[i].role = expected[i].role
                        /\ h[i].content = expected[i].content
    /\ Answered(last) =>
          /\ last.response.session_id \in DOMAIN conversations
          /\ LET h == conversations[last.response.session_id]
             IN  /\ h # <<>>
                 /\ h[Len(h)].role = "assistant"
                 /\ h[Len(h)].content = last.response.response

\* C10 as stated: after k completed /ask or /ask-natural calls with one
\* session id, made one after the other on a session that did not exist
\* before, the history is user message 1, assistant reply 1, ..., user
\* message k, assistant reply k, each reply being the text of that call's
\* response; every response carries the session id that the request
\* supplied.
C10_SequentialTurns ==
    /\ TurnsInOrder
    /\ (Answered(last) /\ last.request_session_id # None) =>
          last.response.session_id = Val(last.request_session_id)

\* C10 as amended: the history is as stated; every response to a request
\* that supplied a session id other than the empty string carries that id,
\* and a request that supplied the empty string is answered as one that
\* supplied none, with an id create_session_id made.
C10_SequentialTurnsOfAnId ==
    /\ TurnsInOrder
    /\ (Answered(last) /\ last.request_session_id # None) =>
          IF Val(last.request_session_id) # ""
          THEN last.response.session_id = Val(last.request_session_id)
          ELSE \E t \in 0..clock :
                   last.response.session_id = create_session_id(t)

\* the second of two turns on a supplied session id was just answered
C10_Witness ==
    /\ Answered(last)
    /\ last.request_session_id = Some("s1")
    /\ "s1" \notin mixed /\ InFlight("s1") = {}
    /\ Len(TurnsOf("s1")) = 2
    /\ Len(conversations["s1"]) = 4


-----------------------------------------------------------------------------
(* Properties of the routes: what is refused, and what a failure leaves *)

\* the answer just given to a POST /ask or /ask-natural whose content was
\* empty or only whitespace
BlankAsk(l) ==
    /\ l.op \in Kinds
    /\ "content" \in DOMAIN l
    /\ \A i \in 1..Len(l.content) : l.content[i] \in Whitespace

\* C11 as stated: a POST /ask or /ask-natural whose content is empty or only
\* whitespace is answered with status 400, and generate_response is not
\* called for it.
C11_BlankIs400 ==
    [][BlankAsk(last')
         => /\ "status" \in DOMAIN last' /\ last'.status = 400
            /\ begun' = begun]_vars

\* C11 as amended: content of whitespace only is answered with status 400 by
\* the route; empty content is refused before the route runs, with the
\* status 422 of a body that does not validate; in both cases
\* generate_response is not called and the store is left as it was.
C11_BlankIsRefused ==
    [][BlankAsk(last')
         => /\ "status" \in DOMAIN last'
            /\ last'.status = (IF last'.content = <<>> THEN 422 ELSE 400)
            /\ begun' = begun
            /\ UNCHANGED <<conversations, session_metadata, reqs>>]_vars

\* a whitespace-only request was answered 400 after an earlier turn had
\* called generate_response
C11_Witness ==
    /\ BlankAsk(last)
    /\ last.content = BlankContent
    /\ last.status = 400
    /\ begun = 1

\* C12: when the external call raises during generation in /ask or
\* /ask-natural, the request is answered with status 200 and the fixed
\* apology as its response, nothing of the upstream error in it; the session
\* gains one assistant message holding the apology, and on a session used
\* one turn at a time that message follows the user message of the turn.
C12_ApologyOnFailure ==
    [][(Answered(last') /\ last'.external_raised)
         => LET s == last'.response.session_id
                old == IF s \in DOMAIN conversations
                       THEN conversations[s] ELSE <<>>
            IN  /\ last'.response.response = Apology
                /\ s \in DOMAIN conversations'
                /\ LET h == conversations'[s]
                   IN  /\ Len(h) = Len(old) + 1
                       /\ SubSeq(h, 1, Len(old)) = old
                       /\ h[Len(h)].role = "assistant"
                       /\ h[Len(h)].content = Apology
                       /\ (s \notin mixed' =>
                             LET ts == turns'[s]
                             IN  /\ Len(h) >= 2
                                 /\ h[Len(h) - 1].role = "user"
                                 /\ h[Len(h) - 1].content
                                      = Val(ts[Len(ts)].content))
                /\ \A x \in DOMAIN conversations \ {s} :
                      /\ x \in DOMAIN conversations'
                      /\ conversations'[x] = conversations[x]]_vars

\* the external call of the second turn of a session raised, after its
\* first turn was answered by the model
C12_Witness ==
    /\ Answered(last)
    /\ last.external_raised
    /\ LET s == last.response.session_id
       IN  /\ s \notin mixed
           /\ Len(conversations[s]) = 4
           /\ conversations[s][2].content # Apology
           /\ conversations[s][3].role = "user"
           /\ conversations[s][4].content = Apology

\* the startup that was just attempted had no usable credential, or the
\* model could not be constructed
FailedToInitialize(l) ==
    /\ l.op = "startup"
    /\ (l.api_key \in {None, Some("")} \/ ~l.constructs)

\* C13 as stated: when the credential is missing or the model cannot be
\* constructed at startup, initialization still completes and the process
\* serves; GET /health answers degraded with api_connected false then, and
\* healthy exactly when the model handle was initialized.
C13_DegradedNotCrash ==
    /\ (FailedToInitialize(last) =>
          /\ ~last.raised
          /\ process = "serving"
          /\ services.gemini_service
          /\ ~model)
    /\ (last.op = "health_check" =>
          /\ last.status = 200
          /\ last.body.status = (IF model THEN "healthy" ELSE "degraded")
          /\ last.body.api_connected = model)

-----------------------------------------------------------------------------
(* Properties of the Intent Extractor *)

\* what the prompt's keys hold in a response that is an object: whether a
\* value is one its field takes, and the field value it stands for
FitsBool(opt) ==
    opt \in {None, Some(JBool(TRUE)), Some(JBool(FALSE)), Some(JStr("Yes"))}

FitsStr(opt) == opt = None \/ Val(opt).t \in {"null", "str"}

FitsPriority(opt) ==
    opt \in {None, Some(JNull)} \cup {Some(JStr(p)) : p \in Priorities}

Fits(members) ==
    /\ FitsBool(members.hasTaskIntent)
    /\ FitsStr(members.taskName)
    /\ FitsStr(members.dueDate)
    /\ FitsPriority(members.priority)
    /\ FitsBool(members.needsClarity)

FieldBool(opt) == opt \in {Some(JBool(TRUE)), Some(JStr("Yes"))}

FieldStr(opt) == IF opt \in {None, Some(JNull)} THEN None ELSE Some(Val(opt).s)

\* the response cannot be used: the call raised, the text is not JSON, it
\* is JSON but no object, or it is an object with a value its field does
\* not take
Unusable(response) ==
    \/ response.kind \in {"raises", "malformed", "non_object"}
    \/ response.kind = "object" /\ ~Fits(response.members)

\* C14: with the model handle initialized, analyze_task_intent never raises
\* and returns a result with the elapsed processing time; when the call
\* raised, the text is not JSON, or it is JSON of the wrong shape, the
\* result is has_task_intent false, task_name, due_date and priority null,
\* needs_clarity false.
C14_NeverRaisesNeutralDefault ==
    last.op = "analyze_task_intent" =>
        /\ ~last.result.raised
        /\ last.result.ret.processing_time \in 0..MaxClock
        /\ (Unusable(last.response) =>
              /\ last.result.ret.has_task_intent = FALSE
              /\ last.result.ret.task_name = None
              /\ last.result.ret.due_date = None
              /\ last.result.ret.priority = None
              /\ last.result.ret.needs_clarity = FALSE)

\* an object that says true, names the task and gives a priority the result
\* does not take was answered with the neutral result, after some time
C14_Witness ==
    /\ last.op = "analyze_task_intent"
    /\ last.response.kind = "object"
    /\ last.response.members.hasTaskIntent = Some(JBool(TRUE))
    /\ last.response.members.taskName = Some(JStr("call the dentist"))
    /\ last.response.members.priority = Some(JStr("urgent"))
    /\ ~last.result.raised
    /\ last.result.ret = NoIntent(1)

\* C15 as stated: for every response that is a JSON object, each recognized
\* key is mapped to its field, each missing key gets its neutral value, and
\* unknown keys are ignored.  (Read for the keys whose own value the field
\* takes.)
C15_EveryObjectIsMapped ==
    (last.op = "analyze_task_intent" /\ last.response.kind = "object") =>
        LET m == last.response.members
        IN  /\ ~last.result.raised
            /\ LET ret == last.result.ret
               IN  /\ (FitsBool(m.hasTaskIntent) =>
                         ret.has_task_intent = FieldBool(m.hasTaskIntent))
                   /\ (FitsStr(m.taskName) =>
                         ret.task_name = FieldStr(m.taskName))
                   /\ (FitsStr(m.dueDate) =>
                         ret.due_date = FieldStr(m.dueDate))
                   /\ (FitsPriority(m.priority) =>
                         ret.priority = FieldStr(m.priority))
                   /\ (FitsBool(m.needsClarity) =>
                         ret.needs_clarity = FieldBool(m.needsClarity))

\* C15 as amended: for every response that is a JSON object in which every
\* recognized key holds a value its field takes, each recognized key is
\* mapped to its field, each missing key gets its neutral value (false for
\* the two booleans, null for the others) and unknown keys are ignored, also
\* when hasTaskIntent is false and the other keys are populated.
C15_FittingObjectIsMapped ==
    (/\ last.op = "analyze_task_intent"
     /\ last.response.kind = "object"
     /\ Fits(last.response.members)) =>
        LET m == last.response.members
        IN  /\ ~last.result.raised
            /\ LET ret == last.result.ret
               IN  /\ ret.has_task_intent = FieldBool(m.hasTaskIntent)
                   /\ ret.task_name = FieldStr(m.taskName)
                   /\ ret.due_date = FieldStr(m.dueDate)
                   /\ ret.priority = FieldStr(m.priority)
                   /\ ret.needs_clarity = FieldBool(m.needsClarity)
                   /\ DOMAIN ret = {"has_task_intent", "task_name",
                                    "due_date", "priority", "needs_clarity",
                                    "processing_time"}

\* an object that says false, yet names the task, gives a priority and
\* holds an unknown key, with due date and needsClarity missing, written
\* over lines that end in carriage return and line feed, was mapped
C15_Witness ==
    /\ last.op = "analyze_task_intent"
    /\ last.response.kind = "object"
    /\ last.response.layout = Lines
    /\ last.response.members.hasTaskIntent = Some(JBool(FALSE))
    /\ last.response.members.dueDate = None
    /\ last.response.members.needsClarity = None
    /\ last.response.members.note # None
    /\ ~last.result.raised
    /\ last.result.ret.has_task_intent = FALSE
    /\ last.result.ret.task_name = Some("call the dentist")
    /\ last.result.ret.due_date = None
    /\ last.result.ret.priority = Some("high")
    /\ last.result.ret.needs_clarity = FALSE

\* C16: a POST /analyze-task-intent request, whatever its outcome, leaves the
\* Session Store as it was: no session created, no message appended, no
\* metadata changed.
C16_IntentLeavesTheStore ==
    [][last'.op = "analyze_task_intent_route"
         => UNCHANGED <<conversations, session_metadata>>]_vars

\* a verdict was returned while the store held a session with a turn in it
C16_Witness ==
    /\ last.op = "analyze_task_intent_route"
    /\ "status" \in DOMAIN last
    /\ last.status = 200
    /\ last.body.has_task_intent
    /\ "s1" \in DOMAIN conversations
    /\ Len(conversations["s1"]) = 2
    /\ session_metadata["s1"].message_count = 2

-----------------------------------------------------------------------------
(* Properties of the Retrieval Engine *)

\* the query has a character that is not whitespace
NonBlank(query) == \E i \in 1..Len(query) : query[i] \notin WhitespaceCodes

QueryLower(l) == lower(l.request.query)

\* the score of the document at place i of the store, for the query of l
ScoreOf(l, i) == Score(documents[i], QueryLower(l), Words(QueryLower(l)))

\* the scores of the documents of the store for the query of l, in the
\* order of the store
RECURSIVE ScoresFrom(_, _)
ScoresFrom(l, i) ==
    IF i > Len(documents) THEN <<>>
    ELSE <<ScoreOf(l, i)>> \o ScoresFrom(l, i + 1)

Scores(l) == ScoresFrom(l, 1)

\* C17: for a non-blank query, search(q, limit=k, min_score) returns at most
\* k pairs, by score descending, each of a score >= min_score, and they are
\* the k highest-scoring documents among those of a score >= min_score.
C17_SearchTopK ==
    (last.op = "search" /\ NonBlank(last.request.query)) =>
        LET ret == last.ret
            k == last.request.limit
            min_score == last.request.min_score
            scores == Scores(last)
            returned == {ret[i].doc : i \in 1..Len(ret)}
            eligible == {j \in 1..Len(documents) :
                            AtLeast(scores[j], min_score)}
        IN  /\ Len(ret) <= k
            /\ Len(ret) = Min(k, Cardinality(eligible))
            /\ Cardinality(returned) = Len(ret)
            /\ returned \subseteq eligible
            /\ \A i \in 1..Len(ret) :
                  /\ ret[i].score = scores[ret[i].doc]
                  /\ AtLeast(ret[i].score, min_score)
            /\ \A i \in 1..(Len(ret) - 1) :
                  ~Higher(ret[i + 1].score, ret[i].score)
            /\ \A j \in eligible \ returned : \A i \in 1..Len(ret) :
                  ~Higher(scores[j], ret[i].score)

\* of four documents that all reach min_score, a search with limit 2
\* returned the third and the fourth of the store, whose scores are higher
\* than those of the first and the second
C17_Witness ==
    /\ last.op = "search"
    /\ last.request.limit = 2
    /\ last.request.min_score = DefaultMinScore
    /\ Len(documents) = 4
    /\ \A j \in 1..4 : AtLeast(ScoreOf(last, j), DefaultMinScore)
    /\ Len(last.ret) = 2
    /\ {last.ret[1].doc, last.ret[2].doc} = {3, 4}
    /\ \A i, j \in 1..2 : Higher(last.ret[i].score, ScoreOf(last, j))

\* no word of the query is a word of the content of any document
NoSharedWord(l) ==
    \A j \in 1..Len(documents) :
        Words(QueryLower(l)) \cap Words(lower(documents[j].content)) = {}

\* C18 as stated: a non-blank query none of whose words is a word of any
\* document's content gets an empty result from search with the default
\* min_score.
C18_NoSharedWordNoResult ==
    (/\ last.op = "search"
     /\ last.request.min_score = DefaultMinScore
     /\ NonBlank(last.request.query)
     /\ NoSharedWord(last)) => last.ret = <<>>

\* C18 as amended: a non-blank query none of whose words is a word of any
\* document's content or of any document's metadata values, and which is
\* not contained as a phrase in any document's content, gets an empty result
\* from search with the default min_score.
C18_NothingSharedNoResult ==
    (/\ last.op = "search"
     /\ last.request.min_score = DefaultMinScore
     /\ NonBlank(last.request.query)
     /\ NoSharedWord(last)
     /\ \A j \in 1..Len(documents) :
           /\ ~Contains(lower(documents[j].content), QueryLower(last))
           /\ Words(QueryLower(last)) \cap MetadataWords(documents[j].metadata)
                = {}) => last.ret = <<>>

\* a store of two documents was searched for words none of them holds, in
\* its content or in its metadata: the metadata of one is the int 5, that
\* of the other a list in which the str 'a' stands quoted
C18_Witness ==
    /\ last.op = "search"
    /\ last.request.min_score = DefaultMinScore
    /\ last.request.limit = 2
    /\ last.request.query = Text("a b")
    /\ Len(documents) = 2
    /\ documents = <<DocPool[6], DocPool[7]>>
    /\ MetadataWords(documents[1].metadata) = {Text("5")}
    /\ MetadataWords(documents[2].metadata) = {Text("['a',"), Text("0.5]")}
    /\ last.ret = <<>>

\* the lowercased query is contained in the lowercased content of document i
ExactIn(l, i) == Contains(lower(documents[i].content), QueryLower(l))

\* the query words that are words of the content of document i
CommonWords(l, i) ==
    Words(QueryLower(l)) \cap Words(lower(documents[i].content))

\* document i shares part of the query's words, not all, and does not
\* contain the query
PartialOnly(l, i) ==
    /\ CommonWords(l, i) # {}
    /\ CommonWords(l, i) # Words(QueryLower(l))
    /\ ~ExactIn(l, i)

MetadataCommon(l, i) ==
    Words(QueryLower(l)) \cap MetadataWords(documents[i].metadata)

\* the call just made is a search that returns every document with its score
ScoresAll(l) ==
    /\ l.op = "search"
    /\ NonBlank(l.request.query)
    /\ l.request.min_score = 0
    /\ l.request.limit >= Len(documents)

\* C19 as stated: when the lowercased query is a substring of A's lowercased
\* content, and B shares only part of the query's words and does not contain
\* the query, the score of A is strictly higher than the score of B.
C19_ExactAboveOverlap ==
    ScoresAll(last) =>
        \A a, b \in 1..Len(last.ret) :
            (ExactIn(last, last.ret[a].doc)
               /\ PartialOnly(last, last.ret[b].doc))
            => Higher(last.ret[a].score, last.ret[b].score)

\* C19 as amended: when the lowercased query is a substring of A's
\* lowercased content and every word of the query is a word of A's content,
\* while B shares only part of the query's words, does not contain the
\* query, and has no more of the query's words in its metadata than A has,
\* the score of A is strictly higher than the score of B.
C19_ExactWordsAboveOverlap ==
    ScoresAll(last) =>
        \A a, b \in 1..Len(last.ret) :
            (/\ ExactIn(last, last.ret[a].doc)
             /\ CommonWords(last, last.ret[a].doc) = Words(QueryLower(last))
             /\ PartialOnly(last, last.ret[b].doc)
             /\ Cardinality(MetadataCommon(last, last.ret[b].doc))
                  <= Cardinality(MetadataCommon(last, last.ret[a].doc)))
            => Higher(last.ret[a].score, last.ret[b].score)

\* "a b" was searched in a store whose first document holds one of the two
\* words and whose second holds the phrase, both with a word in the
\* metadata; the score of the second, 1.0 + 0.3 + 0.1 in floats, is the
\* double above 1.4
C19_Witness ==
    /\ ScoresAll(last)
    /\ last.request.query = Text("a b")
    /\ documents = <<[content |-> Text("a"),
                      metadata |-> [category |-> JStr(Text("a"))]],
                     [content |-> Text("A b"),
                      metadata |-> [category |-> JStr(Text("a"))]]>>
    /\ Len(last.ret) = 2
    /\ last.ret[1].doc = 2
    /\ last.ret[1].score
         = FloatSum(FloatSum(FloatOf(1, 1), PhraseBoost), MetadataBoost)
    /\ Higher(last.ret[1].score, FloatOf(14, 10))
    /\ last.ret[2] = [doc |-> 1, score |-> FloatOf(6, 10)]

\* the number of characters of some lines
RECURSIVE TotalLength(_)
TotalLength(lines) ==
    IF lines = <<>> THEN 0 ELSE Len(Head(lines)) + TotalLength(Tail(lines))

\* the place document j has among the documents of a set when they are put
\* by score, the highest first, and those of equal score in the order of
\* the store
Place(scores, set, j) ==
    1 + Cardinality({i \in set : \/ Higher(scores[i], scores[j])
                                 \/ (scores[i] = scores[j] /\ i < j)})

\* a block of lines: the heading, the lines each on its own, an empty line
BlockOf(lines) ==
    IF lines = <<>> THEN <<>>
    ELSE Header \o join(<<10>>, lines) \o <<10, 10>>

\* C20: the block get_context_for_query returns carries document lines of a
\* total length of at most max_context_length; the lines are whole lines,
\* the bullet and the content, of the first documents in rank among the
\* three highest-ranking matches, a match being a document whose score for
\* the query reaches the default min_score; with an empty corpus or no match
\* the block is the empty string.
C20_ContextWithinBudget ==
    last.op = "get_context_for_query" =>
        LET scores == Scores(last)
            matches == IF NonBlank(last.request.query)
                       THEN {j \in 1..Len(documents) :
                                AtLeast(scores[j], DefaultMinScore)}
                       ELSE {}
            top == {j \in matches : Place(scores, matches, j) <= ContextLimit}
            line(n) == Bullet \o documents[
                           CHOOSE j \in top : Place(scores, matches, j) = n
                       ].content
        IN  /\ \E k \in 0..Cardinality(top) :
                  LET lines == [n \in 1..k |-> line(n)]
                  IN  /\ last.ret = BlockOf(lines)
                      /\ TotalLength(lines)
                           <= last.request.max_context_length
            /\ (documents = <<>> \/ matches = {}) => last.ret = <<>>

\* of four matches the block holds the lines of the three of the highest
\* rank, the third and the fourth of the store, of equal score, and then
\* the second; the first of the store, the match of the lowest score, is
\* left out though the budget would hold it
C20_Witness ==
    /\ last.op = "get_context_for_query"
    /\ last.request.query = Text("a")
    /\ last.request.max_context_length = DefaultMaxContextLength
    /\ documents = <<DocPool[1], DocPool[2], DocPool[3], DocPool[4]>>
    /\ \A j \in 1..4 : AtLeast(ScoreOf(last, j), DefaultMinScore)
    /\ last.ret = Header \o Bullet \o Text("a") \o <<10>>
                         \o Bullet \o Text("A b") \o <<10>>
                         \o Bullet \o Text("A b") \o <<10, 10>>

-----------------------------------------------------------------------------
(* Properties of the Knowledge Store *)

\* C21: add_document fails exactly when the content is empty, and then
\* leaves the store as it was; for every non-empty content it appends one
\* new document after the stored ones and returns its id, so the number of
\* documents grows by one, also when the same content is already stored.
C21_AddFailsOnlyOnEmpty ==
    last.op = "add_document" =>
        LET n == Len(last.before)
        IN  /\ last.raised <=> last.content = <<>>
            /\ last.raised => documents = last.before
            /\ ~last.raised =>
                 /\ Len(documents) = n + 1
                 /\ SubSeq(documents, 1, n) = last.before
                 /\ documents[n + 1].content = last.content
                 /\ last.ret = documents[n + 1].id

\* C22: no two documents of the store have the same id, after the making
\* of the service and any number of add_document calls.
C22_IdsUnique ==
    \A i, j \in 1..Len(documents) :
        i # j => documents[i].id # documents[j].id

\* the documents are the seed set and nothing else
SeedSet(docs) ==
    /\ Len(docs) = Len(default_docs)
    /\ \A i \in 1..Len(docs) :
          /\ docs[i].content = default_docs[i].content
          /\ docs[i].metadata = default_docs[i].metadata

\* the path is supplied and the file loads: it is there, it reads as a JSON
\* object and every entry of its "documents" has a content
Loads(input) ==
    /\ input.knowledge_base_path # None
    /\ Val(input.knowledge_base_path) # ""
    /\ input.exists
    /\ ~input.file.raises
    /\ input.file.data.t = "dict"
    /\ LET entries == get(input.file.data.members, "documents", <<>>)
       IN  \A i \in 1..Len(entries) : "content" \in DOMAIN entries[i]

\* C23: a service just made holds at least one document: the documents of
\* the knowledge-base file when the path is supplied and the file loads,
\* and exactly the seed set otherwise, with no document of a file that
\* failed to load among them.
C23_NeverStartsEmpty ==
    last.op = "SimpleRAGService" =>
        /\ Len(documents) >= 1
        /\ IF Loads(last.input)
           THEN LET entries == get(last.input.file.data.members,
                                   "documents", <<>>)
                IN  /\ Len(documents) = Len(entries)
                    /\ \A i \in 1..Len(entries) :
                          documents[i].content = entries[i]["content"]
           ELSE SeedSet(documents)

-----------------------------------------------------------------------------
(* Properties of turns in flight together *)

\* how many of the first k messages of a history have the role
CountRole(history, role, k) ==
    Cardinality({i \in 1..k : history[i].role = role})

\* the turns of a session that wait for their reply
Waiting(s) == {i \in 1..Len(turns[s]) : turns[s][i].response = None}

\* the session exists and, since it was created, no DELETE and no cleanup
\* took it away under a turn in flight: every request in flight on it has
\* its turn waiting, and no reply came without one
Unbroken(s) ==
    /\ s \in DOMAIN turns
    /\ s \in DOMAIN conversations
    /\ \A i \in 1..Len(turns[s]) : turns[s][i].content # None
    /\ Cardinality(Waiting(s)) = Cardinality(InFlight(s))

\* C24: no lock serialises the turns of one session: a second request on
\* the session id is taken while the first waits for the external call,
\* and then both user messages, in the order the requests came, stand
\* before either assistant message.
C24_BothUsersBeforeAssistants ==
    \A s \in DOMAIN turns :
        (Unbroken(s) /\ Len(turns[s]) = 2 /\ s \in mixed) =>
            LET h == conversations[s]
            IN  /\ Len(h) >= 2
                /\ \A i \in 1..2 :
                      /\ h[i].role = "user"
                      /\ h[i].content = Val(turns[s][i].content)
                /\ \A i \in 3..Len(h) : h[i].role = "assistant"

C24_Witness ==
    /\ "s1" \in DOMAIN conversations
    /\ "s1" \in mixed
    /\ [i \in 1..Len(conversations["s1"]) |-> conversations["s1"][i].role]
           = <<"user", "user", "assistant", "assistant">>

\* C25: when every request made on a session since it was created has
\* completed, m of them, and nothing took the session away meanwhile, the
\* history holds 2m messages, m of the user in the order the requests
\* came and m of the assistant, each assistant message after as many user
\* messages as there are assistant messages up to it, and message_count
\* is 2m.
C25_NoAppendLost ==
    \A s \in DOMAIN turns :
        (Unbroken(s) /\ InFlight(s) = {}) =>
            LET h == conversations[s]
                m == Len(turns[s])
                users == {i \in 1..Len(h) : h[i].role = "user"}
            IN  /\ Len(h) = 2 * m
                /\ session_metadata[s].message_count = 2 * m
                /\ Cardinality(users) = m
                /\ \A k \in 1..Len(h) :
                      /\ CountRole(h, "assistant", k) <= CountRole(h, "user", k)
                      /\ h[k].role = "user" =>
                            h[k].content
                              = Val(turns[s][CountRole(h, "user", k)].content)

C25_Witness ==
    /\ "s1" \in DOMAIN turns
    /\ Unbroken("s1")
    /\ InFlight("s1") = {}
    /\ "s1" \in mixed
    /\ Len(turns["s1"]) = 2
    /\ session_metadata["s1"].message_count = 4
    /\ conversations["s1"][1].content # conversations["s1"][2].content

\* C26: the history a route hands to generate_response or
\* generate_rag_enhanced_response is the stored history of the session as
\* it was just before the route appended the user message of this request:
\* every message stored then, in order, and not the new user message.
C26_HistoryBeforeThisTurn ==
    [][("awaiting" \in DOMAIN last' /\ last' # last) =>
          last'.history = get_gemini_history(conversations, last'.session_id)]_vars

C26_Witness ==
    /\ "awaiting" \in DOMAIN last
    /\ Cardinality(InFlight(last.session_id)) = 2
    /\ Len(last.history) = 1
    /\ last.history[1].role = "user"
    /\ last.history[1].parts[1].text # last.content

\* C27: in the history of every session each assistant message has the
\* user message of its turn before it, so that up to any message there are
\* at least as many user messages as assistant messages, and no history
\* begins with an assistant message.
C27_UserBeforeAssistant ==
    \A s \in DOMAIN conversations :
        LET h == conversations[s]
        IN  \A k \in 1..Len(h) :
               CountRole(h, "assistant", k) <= CountRole(h, "user", k)

-----------------------------------------------------------------------------
(* Properties of the routes and the Session Store together *)

\* C28: a POST /ask or /ask-natural that is answered with an error status
\* leaves the Session Store as it was before the request: no session is
\* created and no message is appended.
C28_ErrorLeavesTheStore ==
    [][(last' # last /\ last'.op \in Kinds /\ "status" \in DOMAIN last'
        /\ last'.status >= 400) =>
          /\ conversations' = conversations
          /\ session_metadata' = session_metadata]_vars

C28_Witness ==
    /\ last.op \in Kinds
    /\ "status" \in DOMAIN last
    /\ last.status = 400
    /\ last.request_session_id = None
    /\ DOMAIN conversations = {"s1"}
    /\ Len(conversations["s1"]) = 2

\* C29: every stored message has the role user or assistant, and an
\* add_message call with another role is rejected and leaves the store as
\* it was: no session and no metadata entry is created, and an existing
\* session keeps its messages, last_activity and message_count.
C29_BadRoleLeavesTheStore ==
    [][/\ \A s \in DOMAIN conversations' :
             \A i \in 1..Len(conversations'[s]) :
                 conversations'[s][i].role \in ValidRoles
       /\ (last' # last /\ last'.op = "add_message" /\ last'.raised) =>
             /\ conversations' = conversations
             /\ session_metadata' = session_metadata]_vars

\* C30: the session ids that have a message list are the session ids that
\* have metadata, so get_session_info answers for exactly the sessions
\* that have a stored history.
C30_SameSessionsInBoth ==
    /\ DOMAIN conversations = DOMAIN session_metadata
    /\ \A s \in SessionIds :
          get_session_info(session_metadata, s) # None
              <=> s \in DOMAIN conversations

C30_Witness ==
    /\ last.op = "cleanup_old_sessions"
    /\ last.ret >= 1
    /\ DOMAIN conversations # {}
    /\ DOMAIN session_metadata = DOMAIN conversations
====
